---- MODULE Spec2Model ----
(***************************************************************************)
(* Model of the cardiovascular risk calculator backend                     *)
(* (validators.py, calculators.py, app.py).                                *)
(*                                                                         *)
(* A JSON value is a record [k, n, s]: k is the Python type of the value   *)
(* ("absent" = key not in the dict, "none" = None, "num", "str", "bool"),  *)
(* n its numeric value (a bool is 0 or 1, as in Python) and s its text.    *)
(* A patient dict is a function from FieldNames to such values.            *)
(* A percentage is kept in tenths of a percent (the code rounds to one     *)
(* decimal): 12.3 % is 123.                                                *)
(***************************************************************************)
EXTENDS Integers, Sequences, FiniteSets, TLC

\* now: the clock (minutes); SESSIONS: the session store of app.py; issued:
\* the session ids drawn so far; call: the last call made and what it left;
\* threads: the requests being served at the same time, each with its
\* position in its handler; evals: the evaluations made on the records of
\* requests; db: the rows of the database tables.
VARIABLES now, SESSIONS, issued, call, threads, evals, db

vars == <<now, SESSIONS, issued, call, threads, evals, db>>

(***************************************************************************)
(* JSON values                                                             *)
(***************************************************************************)
Absent == [k |-> "absent", n |-> 0, s |-> ""]
None == [k |-> "none", n |-> 0, s |-> ""]
Num(i) == [k |-> "num", n |-> i, s |-> ""]
Str(t) == [k |-> "str", n |-> 0, s |-> t]
Bool(b) == [k |-> "bool", n |-> IF b THEN 1 ELSE 0, s |-> ""]

FieldNames ==
  {"edad", "sexo", "colesterol_total", "hdl", "presion_sistolica", "ldl",
   "presion_diastolica", "peso", "altura", "fumador", "diabetes",
   "tratamiento_hipertension", "estatinas", "raza", "region_riesgo"}

\* "field in data"
Has(data, f) == data[f].k # "absent"

\* Python numbers: int, float and bool (True == 1, False == 0)
IsNumber(v) == v.k \in {"num", "bool"}

\* bool(x): None, 0, False and "" are falsy, everything else truthy
Truthy(v) ==
  CASE v.k = "none" -> FALSE
    [] v.k = "str" -> v.s # ""
    [] OTHER -> v.n # 0

\* float(x): the exception it raises, "" when it returns. The strings of the
\* model ("", "hombre", "otro", ...) are not numerals.
FloatFault(v) ==
  CASE v.k = "none" -> "TypeError"
    [] v.k = "str" -> "ValueError"
    [] OTHER -> ""

(***************************************************************************)
(* validators.py                                                           *)
(***************************************************************************)
RANGES ==
  [edad |-> <<20, 79>>,
   presion_sistolica |-> <<90, 200>>,
   colesterol_total |-> <<100, 400>>,
   hdl |-> <<20, 100>>,
   ldl |-> <<50, 200>>,
   presion_diastolica |-> <<60, 120>>,
   peso |-> <<30, 200>>,
   altura |-> <<100, 250>>]

required_fields == <<"edad", "sexo", "colesterol_total", "hdl", "presion_sistolica">>

bool_fields == <<"fumador", "diabetes", "tratamiento_hipertension", "estatinas">>

\* A message, kept structured: what |-> the fixed wording, field |-> the field
\* or model it names, the range and the value it cites (0 where it cites
\* none), text |-> the str(e) it embeds ("" where it embeds none).
Msg(what, f, lo, hi, v) ==
  [what |-> what, field |-> f, low |-> lo, high |-> hi, value |-> v, text |-> ""]
MissingError(f) == Msg("Falta el parametro obligatorio", f, 0, 0, 0)
RangeError(f, v) == Msg("fuera de rango", f, RANGES[f][1], RANGES[f][2], v)
LimitWarning(f, v) == Msg("en el limite permitido", f, 0, 0, v)
SexoError == Msg("Sexo debe ser 'hombre' o 'mujer'", "sexo", 0, 0, 0)
PresionWarning == Msg("Presion sistolica elevada para la edad", "", 0, 0, 0)
RatioWarning == Msg("Ratio colesterol total/HDL elevado (>5)", "", 0, 0, 0)

\* line 27: field not in data or data[field] is None or data[field] == ""
IsMissing(data, f) ==
  \/ ~Has(data, f)
  \/ data[f].k = "none"
  \/ data[f].k = "str" /\ data[f].s = ""

\* RangeOutcome with the bounds themselves rejected (an open interval)
RangeOutcomeOpen(f, v) ==
  IF f \notin DOMAIN RANGES THEN "none"
  ELSE IF ~(RANGES[f][1] < v /\ v < RANGES[f][2]) THEN "error"
  ELSE "none"

\* lines 31-37: the range check of one required field that is not missing
RangeOutcome(f, v) ==
  IF f \notin DOMAIN RANGES THEN "none"
  ELSE IF ~(RANGES[f][1] <= v /\ v <= RANGES[f][2]) THEN "error"
  ELSE IF v \in {RANGES[f][1], RANGES[f][2]} THEN "warning"
  ELSE "none"

\* lines 26-37: the loop over required_fields from position i on, with the
\* errors and warnings accumulated so far; exc is the exception float() raised
RECURSIVE RequiredLoop(_, _, _, _)
RequiredLoop(data, i, errors, warnings) ==
  IF i > Len(required_fields) THEN [exc |-> "", errors |-> errors, warnings |-> warnings]
  ELSE LET f == required_fields[i] IN
    IF IsMissing(data, f)
    THEN RequiredLoop(data, i + 1, Append(errors, MissingError(f)), warnings)
    ELSE IF f \notin DOMAIN RANGES
    THEN RequiredLoop(data, i + 1, errors, warnings)
    ELSE IF FloatFault(data[f]) # ""
    THEN [exc |-> FloatFault(data[f]), errors |-> errors, warnings |-> warnings]
    ELSE LET o == RangeOutcome(f, data[f].n) IN
      RequiredLoop(data, i + 1,
        IF o = "error" THEN Append(errors, RangeError(f, data[f].n)) ELSE errors,
        IF o = "warning" THEN Append(warnings, LimitWarning(f, data[f].n)) ELSE warnings)

\* SexoErrors with the comparison made without regard to case
SexoErrorsAnyCase(data, errors) ==
  IF Has(data, "sexo")
     /\ ~(data["sexo"].k = "str" /\ data["sexo"].s \in {"hombre", "mujer", "Hombre", "Mujer"})
  THEN Append(errors, SexoError)
  ELSE errors

\* lines 39-41
SexoErrors(data, errors) ==
  IF Has(data, "sexo") /\ ~(data["sexo"].k = "str" /\ data["sexo"].s \in {"hombre", "mujer"})
  THEN Append(errors, SexoError)
  ELSE errors

\* CoerceFlag that leaves the value as it came
CoerceFlagKept(v) == v

\* lines 43-49: the flags are written back into the caller's dict
CoerceFlag(v) ==
  IF v.k = "absent" THEN Bool(FALSE)
  ELSE IF v.k # "bool" THEN Bool(Truthy(v))
  ELSE v

CoerceFlags(data) ==
  [f \in FieldNames |->
     IF \E i \in 1..Len(bool_fields) : bool_fields[i] = f THEN CoerceFlag(data[f]) ELSE data[f]]

\* lines 52-58: exc is the exception of float(edad) / float(presion_sistolica)
PressureCheck(data, warnings) ==
  IF ~(Has(data, "edad") /\ Has(data, "presion_sistolica"))
  THEN [exc |-> "", warnings |-> warnings]
  ELSE IF FloatFault(data["edad"]) # ""
  THEN [exc |-> FloatFault(data["edad"]), warnings |-> warnings]
  ELSE IF FloatFault(data["presion_sistolica"]) # ""
  THEN [exc |-> FloatFault(data["presion_sistolica"]), warnings |-> warnings]
  ELSE LET edad == data["edad"].n
           presion == data["presion_sistolica"].n
           w1 == IF edad < 40 /\ presion > 140 THEN Append(warnings, PresionWarning) ELSE warnings
           w2 == IF edad > 65 /\ presion > 130 THEN Append(w1, PresionWarning) ELSE w1
       IN [exc |-> "", warnings |-> w2]

\* RatioAbove5 with >= in place of >
RatioAtLeast5(col_total, hdl) ==
  IF hdl > 0 THEN col_total >= 5 * hdl ELSE col_total <= 5 * hdl

\* col_total / hdl > 5 for integers, hdl # 0
RatioAbove5(col_total, hdl) ==
  IF hdl > 0 THEN col_total > 5 * hdl ELSE col_total < 5 * hdl

\* lines 60-64
RatioCheck(data, warnings) ==
  IF ~(Has(data, "colesterol_total") /\ Has(data, "hdl"))
  THEN [exc |-> "", warnings |-> warnings]
  ELSE IF FloatFault(data["colesterol_total"]) # ""
  THEN [exc |-> FloatFault(data["colesterol_total"]), warnings |-> warnings]
  ELSE IF FloatFault(data["hdl"]) # ""
  THEN [exc |-> FloatFault(data["hdl"]), warnings |-> warnings]
  ELSE IF data["hdl"].n = 0
  THEN [exc |-> "ZeroDivisionError", warnings |-> warnings]
  ELSE [exc |-> "",
        warnings |-> IF RatioAbove5(data["colesterol_total"].n, data["hdl"].n)
                     THEN Append(warnings, RatioWarning) ELSE warnings]

\* ValidateReturn that hands back both lists together
ValidateReturnMixed(errors, warnings) ==
  [ok |-> Len(errors) = 0, list |-> errors \o warnings]

\* line 66: (len(errors) == 0, errors if errors else warnings)
ValidateReturn(errors, warnings) ==
  [ok |-> Len(errors) = 0, list |-> IF errors # <<>> THEN errors ELSE warnings]

\* validate_patient_data: exc is "" when it returns; ok and list are the
\* tuple returned; errors and warnings are its two local lists when it ended;
\* data is the caller's dict as the call left it.
Outcome(exc, errors, warnings, data) ==
  [exc |-> exc,
   ok |-> exc = "" /\ ValidateReturn(errors, warnings).ok,
   list |-> IF exc = "" THEN ValidateReturn(errors, warnings).list ELSE <<>>,
   errors |-> errors, warnings |-> warnings, data |-> data]

validate_patient_data(data) ==
  LET r == RequiredLoop(data, 1, <<>>, <<>>) IN
  IF r.exc # "" THEN Outcome(r.exc, r.errors, r.warnings, data)
  ELSE LET errors == SexoErrors(data, r.errors)
           coerced == CoerceFlags(data)
           p == PressureCheck(coerced, r.warnings)
       IN IF p.exc # "" THEN Outcome(p.exc, errors, p.warnings, coerced)
          ELSE LET q == RatioCheck(coerced, p.warnings)
               IN Outcome(q.exc, errors, q.warnings, coerced)

(***************************************************************************)
(* Arithmetic of calculators.py. The code computes in binary floating      *)
(* point; the model computes the same expressions in decimal fixed point   *)
(* with four decimals (1.0 is FixOne), in 32-bit integers.                 *)
(***************************************************************************)
FixOne == 10 ^ 4

\* ln 2 in fixed point
FixLn2 == (69315 * FixOne) \div (10 ^ 5)

\* a * b for fixed-point a and b, without forming the full product
MulFix(a, b) ==
  (a \div FixOne) * b + (a % FixOne) * (b \div FixOne)
  + ((a % FixOne) * (b % FixOne)) \div FixOne

\* the k in 0..30 with 2^k <= n < 2^(k+1), for n >= 1
Log2Floor(n) == CHOOSE k \in 0..30 : 2 ^ k <= n /\ (k = 30 \/ n < 2 ^ (k + 1))

\* 2 atanh z = 2 (z + z^3/3 + z^5/5 + z^7/7 + z^9/9), with z2 = z * z
TwoAtanhSeries(z, z2) ==
  2 * MulFix(z, FixOne + MulFix(z2, FixOne \div 3 + MulFix(z2, FixOne \div 5
                + MulFix(z2, FixOne \div 7 + z2 \div 9))))

TwoAtanh(z) == TwoAtanhSeries(z, MulFix(z, z))

\* ln n for n = 2^k m, 1 <= m < 2: k ln 2 + 2 atanh((m - 1) / (m + 1))
LnWithPower(n, k) == k * FixLn2 + TwoAtanh(((n - 2 ^ k) * FixOne) \div (n + 2 ^ k))

\* math.log(n) for an integer n >= 1
Ln(n) == LnWithPower(n, Log2Floor(n))

\* beyond +-ExpSaturation the results below are 0.0 % or 100.0 % at one decimal
ExpSaturation == 3 * 4

\* e^r for 0 <= r < ln 2, by its Taylor series to the eighth power
ExpSeries(r) ==
  FixOne + MulFix(r, FixOne + MulFix(r \div 2, FixOne + MulFix(r \div 3, FixOne
    + MulFix(r \div 4, FixOne + MulFix(r \div 5, FixOne + MulFix(r \div 6, FixOne
    + MulFix(r \div 7, FixOne + r \div 8)))))))

\* e^x for x = k ln 2 + r
ExpWithPower(x, k) ==
  IF k >= 0 THEN ExpSeries(x - k * FixLn2) * 2 ^ k
  ELSE ExpSeries(x - k * FixLn2) \div 2 ^ (0 - k)

\* math.exp(x) for fixed-point x with |x| <= ExpSaturation
Exp(x) == ExpWithPower(x, x \div FixLn2)

\* 1 - e^y, 1 when e^y is 0 at every decimal kept
OneMinusExp(y) == IF y < 0 - ExpSaturation * FixOne THEN FixOne ELSE FixOne - Exp(y)

\* 1 - s0 ** math.exp(t), with s0 given as s0num / 100000 and t in fixed point
RiskFraction(s0num, t) ==
  IF t > ExpSaturation * FixOne THEN FixOne
  ELSE IF t < 0 - ExpSaturation * FixOne THEN 0
  ELSE OneMinusExp(MulFix(Exp(t), Ln(s0num) - Ln(100000)))

\* round(fraction * 100, 1), in tenths of a percent
RoundTenths(fraction) == (fraction + 5) \div 10

(***************************************************************************)
(* calculators.py: the SCORE tables. Each sex maps to the sequence of its  *)
(* age rows in the order the dict literal lists them (the order min()      *)
(* scans the keys in); cells[c][2 j - 1] and cells[c][2 j] are the         *)
(* non-smoker and smoker risks for cholesterol key ScoreCholKeys[c] and    *)
(* pressure key ScorePressKeys[j].                                         *)
(***************************************************************************)
ScoreCholKeys == <<4, 5, 6, 7, 8>>

ScorePressKeys == <<120, 140, 160, 180>>

SCORE_TABLE_LOW ==
  [H |-> <<
     [age |-> 40, cells |-> <<<<0, 1, 0, 1, 1, 1, 1, 2>>,
        <<0, 1, 1, 1, 1, 2, 1, 2>>,
        <<1, 1, 1, 1, 1, 2, 1, 3>>,
        <<1, 1, 1, 2, 1, 2, 2, 3>>,
        <<1, 1, 1, 2, 1, 3, 2, 4>>>>],
     [age |-> 50, cells |-> <<<<1, 2, 2, 3, 2, 5, 4, 7>>,
        <<1, 3, 2, 4, 3, 6, 4, 8>>,
        <<2, 3, 2, 5, 3, 7, 5, 10>>,
        <<2, 4, 3, 6, 4, 8, 6, 12>>,
        <<2, 5, 3, 7, 5, 10, 7, 14>>>>],
     [age |-> 55, cells |-> <<<<2, 4, 3, 5, 4, 8, 6, 12>>,
        <<2, 4, 3, 6, 5, 9, 7, 13>>,
        <<3, 5, 4, 8, 6, 11, 8, 16>>,
        <<3, 6, 5, 9, 7, 13, 10, 19>>,
        <<4, 8, 6, 11, 8, 16, 12, 22>>>>],
     [age |-> 60, cells |-> <<<<3, 6, 4, 8, 6, 12, 9, 18>>,
        <<3, 7, 5, 10, 7, 14, 11, 21>>,
        <<4, 8, 6, 12, 9, 17, 13, 24>>,
        <<5, 10, 7, 14, 10, 20, 15, 28>>,
        <<6, 12, 9, 17, 12, 24, 18, 33>>>>],
     [age |-> 65, cells |-> <<<<4, 9, 6, 13, 9, 18, 14, 26>>,
        <<5, 10, 7, 15, 11, 21, 16, 30>>,
        <<6, 12, 9, 17, 13, 25, 19, 35>>,
        <<7, 14, 11, 20, 15, 29, 22, 41>>,
        <<9, 17, 13, 24, 16, 34, 26, 47>>>>]>>,
   M |-> <<
     [age |-> 40, cells |-> <<<<0, 0, 0, 0, 0, 0, 0, 0>>,
        <<0, 0, 0, 0, 0, 0, 0, 0>>,
        <<0, 0, 0, 0, 0, 0, 0, 0>>,
        <<0, 0, 0, 0, 0, 0, 0, 1>>,
        <<0, 0, 0, 0, 0, 0, 0, 1>>>>],
     [age |-> 50, cells |-> <<<<0, 1, 0, 1, 1, 1, 1, 2>>,
        <<1, 1, 1, 2, 1, 2, 1, 2>>,
        <<1, 1, 1, 2, 1, 2, 1, 3>>,
        <<1, 1, 1, 2, 2, 2, 2, 3>>,
        <<1, 1, 1, 2, 2, 3, 2, 4>>>>],
     [age |-> 55, cells |-> <<<<1, 1, 1, 2, 1, 3, 2, 4>>,
        <<1, 1, 1, 2, 2, 3, 2, 5>>,
        <<1, 1, 1, 2, 2, 4, 3, 5>>,
        <<1, 1, 1, 3, 2, 4, 3, 6>>,
        <<1, 1, 2, 3, 3, 5, 4, 7>>>>],
     [age |-> 60, cells |-> <<<<1, 2, 2, 3, 3, 5, 4, 8>>,
        <<1, 3, 2, 4, 3, 6, 4, 9>>,
        <<2, 3, 2, 5, 3, 7, 5, 10>>,
        <<2, 4, 3, 5, 4, 8, 6, 11>>,
        <<2, 4, 3, 6, 5, 9, 7, 13>>>>],
     [age |-> 65, cells |-> <<<<2, 4, 3, 6, 5, 9, 7, 13>>,
        <<2, 5, 3, 7, 5, 10, 8, 15>>,
        <<3, 5, 4, 8, 6, 12, 9, 17>>,
        <<3, 6, 5, 9, 7, 13, 10, 19>>,
        <<4, 7, 6, 11, 8, 16, 12, 22>>>>]>>]

SCORE_TABLE_HIGH ==
  [H |-> <<
     [age |-> 65, cells |-> <<<<2, 5, 4, 7, 5, 10, 8, 15>>,
        <<2, 5, 4, 7, 6, 12, 9, 17>>,
        <<3, 6, 5, 9, 7, 14, 10, 20>>,
        <<4, 8, 6, 11, 8, 16, 12, 23>>,
        <<5, 9, 7, 13, 10, 19, 14, 26>>>>],
     [age |-> 60, cells |-> <<<<2, 3, 2, 5, 3, 7, 5, 10>>,
        <<2, 4, 3, 5, 4, 8, 6, 11>>,
        <<2, 4, 3, 6, 5, 9, 7, 13>>,
        <<3, 5, 4, 7, 5, 11, 8, 15>>,
        <<3, 6, 4, 9, 6, 13, 9, 18>>>>],
     [age |-> 55, cells |-> <<<<1, 2, 1, 3, 2, 4, 3, 6>>,
        <<1, 2, 2, 3, 2, 5, 4, 7>>,
        <<1, 3, 2, 4, 3, 6, 4, 8>>,
        <<2, 3, 2, 5, 3, 7, 5, 10>>,
        <<2, 4, 3, 6, 4, 8, 6, 12>>>>],
     [age |-> 50, cells |-> <<<<1, 1, 1, 2, 1, 3, 2, 4>>,
        <<1, 1, 1, 2, 2, 3, 2, 4>>,
        <<1, 2, 1, 2, 2, 3, 3, 5>>,
        <<1, 2, 1, 3, 2, 4, 3, 6>>,
        <<1, 2, 2, 3, 2, 5, 4, 7>>>>],
     [age |-> 40, cells |-> <<<<0, 0, 0, 0, 0, 1, 0, 1>>,
        <<0, 0, 0, 0, 0, 1, 1, 1>>,
        <<0, 0, 0, 0, 1, 1, 1, 1>>,
        <<1, 1, 1, 1, 2, 1, 3, 2>>,
        <<1, 1, 1, 1, 2, 1, 3, 2>>>>]>>,
   M |-> <<
     [age |-> 65, cells |-> <<<<1, 3, 2, 4, 3, 6, 4, 9>>,
        <<1, 3, 2, 4, 3, 6, 5, 9>>,
        <<2, 3, 2, 5, 4, 7, 6, 11>>,
        <<2, 4, 3, 6, 4, 8, 6, 12>>,
        <<2, 4, 3, 7, 5, 10, 7, 14>>>>],
     [age |-> 60, cells |-> <<<<1, 1, 1, 2, 2, 3, 3, 5>>,
        <<1, 2, 1, 2, 2, 4, 3, 5>>,
        <<1, 2, 1, 3, 2, 4, 3, 6>>,
        <<1, 2, 2, 3, 2, 5, 4, 7>>,
        <<1, 3, 2, 4, 3, 5, 4, 8>>>>],
     [age |-> 55, cells |-> <<<<0, 1, 1, 1, 1, 2, 1, 3>>,
        <<0, 1, 1, 1, 1, 2, 1, 3>>,
        <<1, 1, 1, 1, 1, 2, 2, 3>>,
        <<1, 1, 1, 1, 1, 2, 2, 4>>,
        <<1, 1, 1, 1, 1, 2, 2, 4>>>>],
     [age |-> 50, cells |-> <<<<0, 0, 0, 1, 0, 1, 1, 1>>,
        <<0, 0, 0, 1, 0, 1, 1, 1>>,
        <<1, 1, 0, 1, 1, 1, 1, 2>>,
        <<1, 1, 0, 1, 1, 1, 1, 2>>,
        <<1, 1, 0, 1, 1, 1, 1, 2>>>>],
     [age |-> 40, cells |-> <<<<0, 0, 0, 0, 0, 0, 0, 0>>,
        <<0, 0, 0, 0, 0, 0, 0, 0>>,
        <<0, 0, 0, 0, 0, 0, 0, 0>>,
        <<0, 0, 0, 0, 0, 0, 0, 0>>,
        <<0, 0, 0, 0, 0, 0, 0, 0>>>>]>>]

(***************************************************************************)
(* calculators.py: Python operations that can raise. A fault is the        *)
(* exception raised, [exc, msg] with msg = str(e); NoFault when the        *)
(* operation returns.                                                      *)
(***************************************************************************)
NoFault == [exc |-> "", msg |-> ""]
Fault(exc, msg) == [exc |-> exc, msg |-> msg]

\* patient[f]
SubscriptFault(patient, f) == IF Has(patient, f) THEN NoFault ELSE Fault("KeyError", f)

\* x < 30, x / 38.67, abs(p - x)
ArithFault(v) ==
  IF v.k \in {"none", "str"} THEN Fault("TypeError", "unsupported operand type") ELSE NoFault

\* x.lower()
LowerFault(v) ==
  IF v.k = "str" THEN NoFault ELSE Fault("AttributeError", "object has no attribute 'lower'")

\* math.log(x)
LogFault(v) ==
  IF v.k \in {"none", "str"} THEN Fault("TypeError", "must be real number")
  ELSE IF v.n <= 0 THEN Fault("ValueError", "math domain error")
  ELSE NoFault

\* int(x)
IntFault(v) ==
  CASE v.k = "none" -> Fault("TypeError", "int() argument must be a string or a number")
    [] v.k = "str" -> Fault("ValueError", "invalid literal for int()")
    [] OTHER -> NoFault

\* float(x)
FloatCallFault(v) ==
  CASE v.k = "none" -> Fault("TypeError", "float() argument must be a string or a number")
    [] v.k = "str" -> Fault("ValueError", "could not convert string to float")
    [] OTHER -> NoFault

\* The first exception raised by a sequence of operations run in order
FirstFault(faults) ==
  IF \A i \in 1..Len(faults) : faults[i].exc = "" THEN NoFault
  ELSE faults[CHOOSE i \in 1..Len(faults) :
                /\ faults[i].exc # ""
                /\ \A j \in 1..(i - 1) : faults[j].exc = ""]

\* What a function hands back when it may raise: the exception, or the value
\* (evaluated only when nothing was raised)
Returned(f, v) ==
  IF f.exc # "" THEN [fault |-> f, value |-> 0] ELSE [fault |-> NoFault, value |-> v]

\* str.lower() on the strings of the model
Lower(t) ==
  CASE t = "Hombre" -> "hombre"
    [] t = "Mujer" -> "mujer"
    [] t = "Blanco" -> "blanco"
    [] OTHER -> t

\* What a model evaluator hands back: a dict with percent and category
\* (kind "ok"), a dict that also has an "error" key (kind "error"), or an
\* exception that leaves the evaluator (kind "raised", error = str(e)).
OkResult(pct, cat) == [kind |-> "ok", percent |-> pct, category |-> cat, error |-> "", exc |-> ""]
ErrorResult(f) == [kind |-> "error", percent |-> 0, category |-> "error", error |-> f.msg, exc |-> f.exc]
Raised(f) == [kind |-> "raised", percent |-> 0, category |-> "", error |-> f.msg, exc |-> f.exc]

\* categorize_risk with each threshold counted in the band below it
categorize_risk_inclusive(pct) ==
  IF pct <= 50 THEN "bajo"
  ELSE IF pct <= 100 THEN "moderado"
  ELSE IF pct <= 200 THEN "alto"
  ELSE "muy alto"

\* categorize_risk, on tenths of a percent
categorize_risk(pct) ==
  IF pct < 50 THEN "bajo"
  ELSE IF pct < 100 THEN "moderado"
  ELSE IF pct < 200 THEN "alto"
  ELSE "muy alto"

(***************************************************************************)
(* Framingham                                                              *)
(***************************************************************************)
FRAMINGHAM_BETA_M == <<30612, 11237, -9326, 19330, 6545, 5737>>
FRAMINGHAM_BETA_F == <<23289, 12090, -7083, 27616, 6915, 5287>>
FRAMINGHAM_MEAN_M == <<Ln(52), Ln(213), Ln(50), Ln(120), 0, 0>>
FRAMINGHAM_MEAN_F == <<Ln(52), Ln(213), Ln(50), Ln(120), 0, 0>>
\* S0 as a numerator over 100000
FRAMINGHAM_S0_M == 88936
FRAMINGHAM_S0_F == 95012

FraminghamWindowMsg == "Framingham Risk Score solo es valido para pacientes de 30 a 74 anos."

\* FraminghamWindowFault with the window of ACC/AHA (30 to 79)
FraminghamWindowFaultWide(patient) ==
  IF IsNumber(patient["edad"]) /\ (patient["edad"].n < 30 \/ patient["edad"].n > 79)
  THEN Fault("ValueError", FraminghamWindowMsg)
  ELSE NoFault

\* line 55
FraminghamWindowFault(patient) ==
  IF IsNumber(patient["edad"]) /\ (patient["edad"].n < 30 \/ patient["edad"].n > 74)
  THEN Fault("ValueError", FraminghamWindowMsg)
  ELSE NoFault

\* lines 55-68: the exception framingham_points raises before it computes
FraminghamFault(patient) ==
  FirstFault(<<
    SubscriptFault(patient, "edad"), ArithFault(patient["edad"]),
    FraminghamWindowFault(patient),
    SubscriptFault(patient, "sexo"), LowerFault(patient["sexo"]),
    SubscriptFault(patient, "colesterol_total"), LogFault(patient["colesterol_total"]),
    SubscriptFault(patient, "hdl"), LogFault(patient["hdl"]),
    SubscriptFault(patient, "presion_sistolica"), LogFault(patient["presion_sistolica"]),
    SubscriptFault(patient, "diabetes"), IntFault(patient["diabetes"]),
    SubscriptFault(patient, "fumador"), IntFault(patient["fumador"])>>)

\* np.dot(beta, x - mean)
Dot6(beta, x, mean) ==
  MulFix(beta[1], x[1] - mean[1]) + MulFix(beta[2], x[2] - mean[2])
  + MulFix(beta[3], x[3] - mean[3]) + MulFix(beta[4], x[4] - mean[4])
  + MulFix(beta[5], x[5] - mean[5]) + MulFix(beta[6], x[6] - mean[6])

Min(a, b) == IF a < b THEN a ELSE b

\* lines 61-68
FraminghamX(patient) ==
  <<Ln(patient["edad"].n), Ln(patient["colesterol_total"].n),
    Ln(patient["hdl"].n), Ln(patient["presion_sistolica"].n),
    patient["diabetes"].n * FixOne, patient["fumador"].n * FixOne>>

\* FraminghamFormula that scales the fraction by 1000 and does not clamp
FraminghamFormulaPerMille(beta, mean, s0, x) ==
  RoundTenths(10 * RiskFraction(s0, Dot6(beta, x, mean)))

\* lines 71-81, with the constants of the sex selected
FraminghamFormula(beta, mean, s0, x) ==
  Min(RoundTenths(RiskFraction(s0, Dot6(beta, x, mean))), 1000)

\* lines 58-81, for a patient on which FraminghamFault is NoFault
FraminghamPercent(patient) ==
  IF Lower(patient["sexo"].s) = "hombre"
  THEN FraminghamFormula(FRAMINGHAM_BETA_M, FRAMINGHAM_MEAN_M, FRAMINGHAM_S0_M, FraminghamX(patient))
  ELSE FraminghamFormula(FRAMINGHAM_BETA_F, FRAMINGHAM_MEAN_F, FRAMINGHAM_S0_F, FraminghamX(patient))

\* framingham_points: [fault, value]
framingham_points(patient) == Returned(FraminghamFault(patient), FraminghamPercent(patient))

\* lines 100-102, given what framingham_points did
FraminghamResult(r) ==
  IF r.fault.exc # "" THEN Raised(r.fault)
  ELSE OkResult(r.value, categorize_risk(r.value))

\* framingham_risk: no try/except, an exception of framingham_points leaves it
framingham_risk(patient) == FraminghamResult(framingham_points(patient))

(***************************************************************************)
(* SCORE                                                                   *)
(***************************************************************************)
ScoreWindowMsg == "SCORE solo es valido para pacientes de 40 a 65 anos."

\* line 277
ScoreWindowFault(patient) ==
  IF IsNumber(patient["edad"]) /\ (patient["edad"].n < 40 \/ patient["edad"].n > 65)
  THEN Fault("ValueError", ScoreWindowMsg)
  ELSE NoFault

\* line 301: the innermost dict has the keys False and True (0 == False, 1 == True)
SmokerKeyFault(v) ==
  IF IsNumber(v) /\ v.n \in {0, 1} THEN NoFault ELSE Fault("KeyError", "fumador")

\* lines 277-301: the exception score_lookup raises
ScoreFault(patient) ==
  FirstFault(<<
    SubscriptFault(patient, "edad"), ArithFault(patient["edad"]),
    ScoreWindowFault(patient),
    SubscriptFault(patient, "sexo"), LowerFault(patient["sexo"]),
    SubscriptFault(patient, "colesterol_total"), ArithFault(patient["colesterol_total"]),
    SubscriptFault(patient, "presion_sistolica"), ArithFault(patient["presion_sistolica"]),
    SubscriptFault(patient, "fumador"), SmokerKeyFault(patient["fumador"])>>)

Abs(x) == IF x < 0 THEN 0 - x ELSE x

\* min(keys, key=dist): the first position of keys, in their order, whose
\* distance is the least
ArgMinFirst(dists) ==
  CHOOSE i \in 1..Len(dists) :
    /\ \A j \in 1..Len(dists) : dists[i] <= dists[j]
    /\ \A j \in 1..(i - 1) : dists[j] > dists[i]

\* lines 285-286
ScoreTable(patient) ==
  IF patient["region_riesgo"].k = "str" /\ patient["region_riesgo"].s = "alto"
  THEN (IF Lower(patient["sexo"].s) = "hombre" THEN SCORE_TABLE_HIGH.H ELSE SCORE_TABLE_HIGH.M)
  ELSE (IF Lower(patient["sexo"].s) = "hombre" THEN SCORE_TABLE_LOW.H ELSE SCORE_TABLE_LOW.M)

\* ClosestAgeRow that takes the row of the greatest key not above the age
ClosestAgeRowBelow(tbl, age) ==
  ArgMinFirst([i \in 1..Len(tbl) |-> IF tbl[i].age <= age THEN age - tbl[i].age ELSE 100])

\* line 290: the position in the table of the row of the closest age
ClosestAgeRow(tbl, age) == ArgMinFirst([i \in 1..Len(tbl) |-> Abs(tbl[i].age - age)])

\* lines 293-294: abs(c - chol / 38.67), scaled by 3867
ClosestChol(chol) ==
  ArgMinFirst([i \in 1..Len(ScoreCholKeys) |-> Abs(3867 * ScoreCholKeys[i] - 100 * chol)])

\* ClosestPress that takes the bucket the pressure has not yet passed
ClosestPressAbove(press) ==
  ArgMinFirst([i \in 1..Len(ScorePressKeys) |->
                 IF ScorePressKeys[i] >= press THEN ScorePressKeys[i] - press ELSE 1000])

\* lines 297-298
ClosestPress(press) ==
  ArgMinFirst([i \in 1..Len(ScorePressKeys) |-> Abs(ScorePressKeys[i] - press)])

\* line 301: the cell at row a, cholesterol position c, pressure position p
CellAt(row, c, p, smoker) ==
  [age |-> row.age, chol |-> ScoreCholKeys[c], press |-> ScorePressKeys[p],
   smoker |-> smoker, risk |-> row.cells[c][2 * p - 1 + smoker]]

RowAt(tbl, a) == tbl[a]

\* lines 285-301: the table cell selected, [age, chol, press, smoker, risk]
ScoreCell(patient) ==
  CellAt(RowAt(ScoreTable(patient), ClosestAgeRow(ScoreTable(patient), patient["edad"].n)),
         ClosestChol(patient["colesterol_total"].n),
         ClosestPress(patient["presion_sistolica"].n),
         patient["fumador"].n)

\* ScoreClamp without the ceiling
ScoreClampNone(risk) == 10 * risk

\* lines 302-303: round(min(risk, 25.0), 1), in tenths
ScoreClamp(risk) == IF risk > 25 THEN 250 ELSE 10 * risk

score_lookup(patient) == Returned(ScoreFault(patient), ScoreClamp(ScoreCell(patient).risk))

\* lines 321-326 and 484-489: try/except Exception around the computation
Caught(r) ==
  IF r.fault.exc # "" THEN ErrorResult(r.fault)
  ELSE OkResult(r.value, categorize_risk(r.value))

\* score_risk
score_risk(patient) == Caught(score_lookup(patient))

(***************************************************************************)
(* ACC/AHA pooled cohort equations                                         *)
(***************************************************************************)
AccAhaWindowMsg == "La ecuacion ACC/AHA solo es valida para pacientes de 40 a 79 anos."
AccAhaVariantMsg == "Combinacion sexo/raza no soportada en la formula oficial."

\* lines 366-427: coefficients (fixed point), s0 (over 100000) and mean of
\* each variant; a key a variant does not define is not in its record
AccAhaVariants ==
  [hombre_blanco |->
     [coeffs |-> [ln_age |-> 123440, ln_tc |-> 118530, ln_age_ln_tc |-> -26640,
                  ln_hdl |-> -79900, ln_age_ln_hdl |-> 17690, ln_sbp_treated |-> 17970,
                  ln_sbp_untreated |-> 17640, smoker |-> 78370, ln_age_smoker |-> -17950,
                  diabetes |-> 6580],
      s0 |-> 91440, mean |-> 611800],
   mujer_blanco |->
     [coeffs |-> [ln_age |-> -297990, ln_age_sq |-> 48840, ln_tc |-> 135400,
                  ln_age_ln_tc |-> -31140, ln_hdl |-> -135780, ln_age_ln_hdl |-> 31490,
                  ln_sbp_treated |-> 20190, ln_sbp_untreated |-> 19570, smoker |-> 75740,
                  ln_age_smoker |-> -16650, diabetes |-> 6610],
      s0 |-> 96650, mean |-> -291800],
   hombre_afroamericano |->
     [coeffs |-> [ln_age |-> 24690, ln_tc |-> 3020, ln_hdl |-> -3070,
                  ln_sbp_treated |-> 19160, ln_sbp_untreated |-> 18090, smoker |-> 5490,
                  diabetes |-> 6450],
      s0 |-> 89540, mean |-> 195400],
   mujer_afroamericano |->
     [coeffs |-> [ln_age |-> 171140, ln_tc |-> 9400, ln_hdl |-> -189200,
                  ln_age_ln_hdl |-> 44750, ln_sbp_treated |-> 292910,
                  ln_sbp_untreated |-> 278200, smoker |-> 6910, diabetes |-> 8740],
      s0 |-> 95330, mean |-> 866100]]

\* RaceValue that takes an absent race for "afroamericano"
RaceValueBlack(patient) == IF Has(patient, "raza") THEN patient["raza"] ELSE Str("afroamericano")

\* line 350: patient.get("raza", "blanco")
RaceValue(patient) == IF Has(patient, "raza") THEN patient["raza"] ELSE Str("blanco")

\* AccAhaVariant that falls back on the white man's coefficients
AccAhaVariantFallback(sex, race) ==
  IF sex = "mujer" /\ race = "blanco" THEN "mujer_blanco"
  ELSE IF sex = "hombre" /\ race = "afroamericano" THEN "hombre_afroamericano"
  ELSE IF sex = "mujer" /\ race = "afroamericano" THEN "mujer_afroamericano"
  ELSE "hombre_blanco"

\* lines 366-427: the variant selected, "" when the pair is not supported
AccAhaVariant(sex, race) ==
  IF sex = "hombre" /\ race = "blanco" THEN "hombre_blanco"
  ELSE IF sex = "mujer" /\ race = "blanco" THEN "mujer_blanco"
  ELSE IF sex = "hombre" /\ race = "afroamericano" THEN "hombre_afroamericano"
  ELSE IF sex = "mujer" /\ race = "afroamericano" THEN "mujer_afroamericano"
  ELSE ""

\* lines 359-360
AccAhaWindowFault(patient) ==
  IF IsNumber(patient["edad"]) /\ (patient["edad"].n < 40 \/ patient["edad"].n > 79)
  THEN Fault("ValueError", AccAhaWindowMsg)
  ELSE NoFault

\* lines 366-427, the else branch
AccAhaVariantFault(patient) ==
  IF patient["sexo"].k = "str" /\ RaceValue(patient).k = "str"
     /\ AccAhaVariant(Lower(patient["sexo"].s), Lower(RaceValue(patient).s)) = ""
  THEN Fault("ValueError", AccAhaVariantMsg)
  ELSE NoFault

\* lines 348-435: the exception acc_aha_equation raises
AccAhaFault(patient) ==
  FirstFault(<<
    SubscriptFault(patient, "edad"), FloatCallFault(patient["edad"]),
    SubscriptFault(patient, "sexo"), LowerFault(patient["sexo"]),
    LowerFault(RaceValue(patient)),
    SubscriptFault(patient, "colesterol_total"), FloatCallFault(patient["colesterol_total"]),
    SubscriptFault(patient, "hdl"), FloatCallFault(patient["hdl"]),
    SubscriptFault(patient, "presion_sistolica"), FloatCallFault(patient["presion_sistolica"]),
    SubscriptFault(patient, "tratamiento_hipertension"), IntFault(patient["tratamiento_hipertension"]),
    SubscriptFault(patient, "fumador"), IntFault(patient["fumador"]),
    SubscriptFault(patient, "diabetes"), IntFault(patient["diabetes"]),
    AccAhaWindowFault(patient),
    AccAhaVariantFault(patient),
    LogFault(patient["colesterol_total"]), LogFault(patient["hdl"]),
    LogFault(patient["presion_sistolica"])>>)

\* coeffs[key] * v when the variant defines key, else nothing
Term(coeffs, key, v) == IF key \in DOMAIN coeffs THEN MulFix(coeffs[key], v) ELSE 0

\* lines 438-460, given the four logarithms
AccAhaSum(coeffs, ln_age, ln_tc, ln_hdl, ln_sbp, tx_htn, smoker, diabetes) ==
  Term(coeffs, "ln_age", ln_age)
  + Term(coeffs, "ln_age_sq", MulFix(ln_age, ln_age))
  + Term(coeffs, "ln_tc", ln_tc)
  + Term(coeffs, "ln_age_ln_tc", MulFix(ln_age, ln_tc))
  + Term(coeffs, "ln_hdl", ln_hdl)
  + Term(coeffs, "ln_age_ln_hdl", MulFix(ln_age, ln_hdl))
  + (IF tx_htn # 0
     THEN MulFix(coeffs["ln_sbp_treated"], ln_sbp)
     ELSE MulFix(coeffs["ln_sbp_untreated"], ln_sbp))
  + (IF smoker # 0
     THEN coeffs["smoker"] + Term(coeffs, "ln_age_smoker", ln_age)
     ELSE 0)
  + (IF diabetes # 0 THEN coeffs["diabetes"] ELSE 0)

\* lines 432-460
AccAhaTerms(coeffs, patient) ==
  AccAhaSum(coeffs, Ln(patient["edad"].n), Ln(patient["colesterol_total"].n),
            Ln(patient["hdl"].n), Ln(patient["presion_sistolica"].n),
            patient["tratamiento_hipertension"].n, patient["fumador"].n,
            patient["diabetes"].n)

\* lines 462-465, with the constants of the variant selected
AccAhaFormula(v, patient) ==
  RoundTenths(RiskFraction(v.s0, AccAhaTerms(v.coeffs, patient) - v.mean))

\* lines 366-465, for a patient on which AccAhaFault is NoFault
AccAhaPercent(patient) ==
  AccAhaFormula(
    AccAhaVariants[AccAhaVariant(Lower(patient["sexo"].s), Lower(RaceValue(patient).s))],
    patient)

acc_aha_equation(patient) == Returned(AccAhaFault(patient), AccAhaPercent(patient))

\* acc_aha_risk
acc_aha_risk(patient) == Caught(acc_aha_equation(patient))

(***************************************************************************)
(* app.py: the session store and the calculate handler                     *)
(***************************************************************************)
EXPIRE_MINUTES == 60

\* <<>> is the empty dict
NoSessions == <<>>

\* _cleanup_expired that also removes the sessions of age EXPIRE_MINUTES
_cleanup_expired_inclusive(sessions, t) ==
  LET expired == {sid \in DOMAIN sessions : t - sessions[sid].timestamp >= EXPIRE_MINUTES}
  IN [sid \in (DOMAIN sessions) \ expired |-> sessions[sid]]

\* _cleanup_expired at time t: the sessions that are left
_cleanup_expired(sessions, t) ==
  LET expired == {sid \in DOMAIN sessions : t - sessions[sid].timestamp > EXPIRE_MINUTES}
  IN [sid \in (DOMAIN sessions) \ expired |-> sessions[sid]]

\* Requested that runs every model whatever the method
RequestedEverything(method) == <<"framingham", "score", "acc_aha">>

\* lines 325-330: the models a method asks for, in the order they are run
Requested(method) ==
  (IF method \in {"framingham", "all"} THEN <<"framingham">> ELSE <<>>)
  \o (IF method \in {"score", "all"} THEN <<"score">> ELSE <<>>)
  \o (IF method \in {"acc-aha", "all"} THEN <<"acc_aha">> ELSE <<>>)

EvalModel(name, patient) ==
  CASE name = "framingham" -> framingham_risk(patient)
    [] name = "score" -> score_risk(patient)
    [] name = "acc_aha" -> acc_aha_risk(patient)

\* lines 323-333: run the requested models in order into the result dict;
\* an exception that leaves a model ends the run (raised is that model's
\* outcome, NoRaise when none did)
NoRaise == [kind |-> "", percent |-> 0, category |-> "", error |-> "", exc |-> ""]

\* The position of the first model that raised, 0 when none did
FirstRaise(results) ==
  IF \A i \in 1..Len(results) : results[i].kind # "raised" THEN 0
  ELSE CHOOSE i \in 1..Len(results) :
         /\ results[i].kind = "raised"
         /\ \A j \in 1..(i - 1) : results[j].kind # "raised"

\* The run that stops at position k (0: all of names are run)
RunUpTo(names, results, k) ==
  [raised |-> IF k = 0 THEN NoRaise ELSE results[k],
   result |-> [i \in 1..(IF k = 0 THEN Len(names) ELSE k - 1) |->
                 [model |-> names[i], res |-> results[i]]],
   invoked |-> SubSeq(names, 1, IF k = 0 THEN Len(names) ELSE k)]

RunOutcome(names, results) == RunUpTo(names, results, FirstRaise(results))

\* The evaluators are functions of the dict alone, so what each hands back
\* does not depend on the ones run before it
RunModels(names, patient) ==
  RunOutcome(names, [i \in 1..Len(names) |-> EvalModel(names[i], patient)])

\* FirstError that finds none
FirstErrorNone(result) == 0

\* lines 336-338: the first entry of the result dict that has an "error" key
FirstError(result) ==
  IF \E i \in 1..Len(result) : result[i].res.kind = "error"
  THEN CHOOSE i \in 1..Len(result) :
         /\ result[i].res.kind = "error"
         /\ \A j \in 1..(i - 1) : result[j].res.kind # "error"
  ELSE 0

\* What a handler answers: the HTTP status, the JSON body's status, errors,
\* session_id (0: none), result and warnings. Status 500 with body "unhandled"
\* is an exception that left the handler.
Response(status, body, errors, sid, result, warnings) ==
  [status |-> status, body |-> body, errors |-> errors, session_id |-> sid,
   result |-> result, warnings |-> warnings]

CalcError(f) == [Msg("Error en calculo", "", 0, 0, 0) EXCEPT !.text = f]
ModelError(name, f) == [Msg("Error en", name, 0, 0, 0) EXCEPT !.text = f]

\* What calculate leaves behind: its response, the store afterwards, what
\* validate returned, the models invoked in order, and the request dict
Handled(resp, store, v, invoked) ==
  [response |-> resp, sessions |-> store, validation |-> v, invoked |-> invoked,
   data |-> v.data]

\* StoreAndAnswer that answers and stores without the warnings
StoreAndAnswerSilent(v, run, sessions, t, sid) ==
  Handled(Response(200, "ok", <<>>, sid, run.result, <<>>),
          [s \in (DOMAIN sessions) \cup {sid} |->
             IF s = sid
             THEN [timestamp |-> t, patient |-> v.data, result |-> run.result,
                   warnings |-> <<>>]
             ELSE sessions[s]],
          v, run.invoked)

\* lines 340-353
StoreAndAnswer(v, run, sessions, t, sid) ==
  Handled(Response(200, "ok", <<>>, sid, run.result, v.list),
          [s \in (DOMAIN sessions) \cup {sid} |->
             IF s = sid
             THEN [timestamp |-> t, patient |-> v.data, result |-> run.result,
                   warnings |-> v.list]
             ELSE sessions[s]],
          v, run.invoked)

\* AfterModels that answers 200 with whatever the models handed back
AfterModelsTolerant(v, run, sessions, t, sid) == StoreAndAnswer(v, run, sessions, t, sid)

\* lines 323-353: the record passed validation (v), the models have run (run)
AfterModels(v, run, sessions, t, sid) ==
  IF run.raised.kind = "raised"
  THEN Handled(Response(422, "error", <<CalcError(run.raised.error)>>, 0, <<>>, <<>>),
               sessions, v, run.invoked)
  ELSE IF FirstError(run.result) # 0
  THEN Handled(Response(422, "error",
                        <<ModelError(run.result[FirstError(run.result)].model,
                                     run.result[FirstError(run.result)].res.error)>>,
                        0, <<>>, <<>>),
               sessions, v, run.invoked)
  ELSE StoreAndAnswer(v, run, sessions, t, sid)

\* AfterValidate that runs the models whatever validate returned
AfterValidateUnchecked(method, v, sessions, t, sid) ==
  AfterModels(v, RunModels(Requested(method), v.data), sessions, t, sid)

\* lines 319-353: validate has ended with v
AfterValidate(method, v, sessions, t, sid) ==
  IF v.exc # ""
  THEN Handled(Response(500, "unhandled", <<>>, 0, <<>>, <<>>), sessions, v, <<>>)
  ELSE IF ~v.ok
  THEN Handled(Response(400, "error", v.list, 0, <<>>, <<>>), sessions, v, <<>>)
  ELSE AfterModels(v, RunModels(Requested(method), v.data), sessions, t, sid)

\* calculate(method) on request body patient, with the store as
\* _cleanup_expired left it, at time t, sid being the uuid4 drawn
calculate(method, patient, sessions, t, sid) ==
  AfterValidate(method, validate_patient_data(patient), sessions, t, sid)

SessionNotFound == Msg("Sesion no encontrada", "", 0, 0, 0)
PdfError == Msg("Error generando PDF", "", 0, 0, 0)

\* generate_report that looks the session up in the store as it finds it
generate_report_stale(session_id, sessions, t, built) ==
  [response |->
     IF session_id \notin DOMAIN sessions
     THEN Response(404, "error", <<SessionNotFound>>, 0, <<>>, <<>>)
     ELSE Response(200, "file", <<>>, session_id, sessions[session_id].result,
                   sessions[session_id].warnings),
   sessions |-> sessions]

\* lines 357-372: generate_report(session_id) at time t; built tells whether
\* build_pdf_report returned a file or raised. The response and the store
\* it leaves.
generate_report(session_id, sessions, t, built) ==
  [response |->
     IF session_id \notin DOMAIN _cleanup_expired(sessions, t)
     THEN Response(404, "error", <<SessionNotFound>>, 0, <<>>, <<>>)
     ELSE IF built
     THEN Response(200, "file", <<>>, session_id, sessions[session_id].result,
                   sessions[session_id].warnings)
     ELSE Response(500, "error", <<PdfError>>, 0, <<>>, <<>>),
   sessions |-> _cleanup_expired(sessions, t)]

(***************************************************************************)
(* Requests                                                                *)
(***************************************************************************)
Methods == {"framingham", "score", "acc-aha", "all", "otro"}

EmptyDict == [f \in FieldNames |-> Absent]

NoValidation == Outcome("", <<>>, <<>>, EmptyDict)

NoResponse == Response(0, "", <<>>, 0, <<>>, <<>>)

NoModelResult == NoRaise

\* The last call made: op names it, patient is the dict as the caller passed
\* it and data the same dict when the call ended; model is the value a
\* model evaluator called on its own handed back.
Call(op, method, patient, data, validation, invoked, model, response) ==
  [op |-> op, method |-> method, patient |-> patient, data |-> data,
   validation |-> validation, invoked |-> invoked, model |-> model,
   response |-> response]

NoCall == Call("none", "", EmptyDict, EmptyDict, NoValidation, <<>>, NoModelResult, NoResponse)

\* POST /calculate/<method> with body patient
Calculate(method, patient) ==
  \E c \in {calculate(method, patient, _cleanup_expired(SESSIONS, now), now, issued + 1)} :
  /\ SESSIONS' = c.sessions
  /\ issued' = IF c.response.session_id # 0 THEN issued + 1 ELSE issued
  /\ call' = Call("calculate", method, patient, c.data, c.validation, c.invoked,
                  NoModelResult, c.response)
  /\ UNCHANGED <<now, threads, evals, db>>

\* A model evaluator, or the validator, called on its own
CallValidate(patient) ==
  \E v \in {validate_patient_data(patient)} :
  /\ call' = Call("validate", "", patient, v.data, v, <<>>, NoModelResult, NoResponse)
  /\ UNCHANGED <<now, SESSIONS, issued, threads, evals, db>>

\* CallModel whose evaluator writes the lower-cased race back into the dict
CallModelWriting(name, patient) ==
  /\ call' = Call(name, "", patient, [patient EXCEPT !["raza"] = Str("blanco")], NoValidation,
                  <<name>>, EvalModel(name, patient), NoResponse)
  /\ UNCHANGED <<now, SESSIONS, issued, threads, evals, db>>

CallModel(name, patient) ==
  /\ call' = Call(name, "", patient, patient, NoValidation, <<name>>,
                  EvalModel(name, patient), NoResponse)
  /\ UNCHANGED <<now, SESSIONS, issued, threads, evals, db>>

\* GET /generate-report/<session_id>
Report(session_id, built) ==
  \E g \in {generate_report(session_id, SESSIONS, now, built)} :
  /\ SESSIONS' = g.sessions
  /\ call' = Call("report", "", EmptyDict, EmptyDict, NoValidation, <<>>,
                  NoModelResult, g.response)
  /\ UNCHANGED <<now, issued, threads, evals, db>>

(***************************************************************************)
(* Request bodies                                                          *)
(***************************************************************************)
\* The record of the specification's end-to-end example
BasePatient ==
  [f \in FieldNames |->
     CASE f = "edad" -> Num(55)
       [] f = "sexo" -> Str("hombre")
       [] f = "colesterol_total" -> Num(220)
       [] f = "hdl" -> Num(45)
       [] f = "presion_sistolica" -> Num(145)
       [] f = "fumador" -> Bool(TRUE)
       [] f = "diabetes" -> Bool(FALSE)
       [] f = "tratamiento_hipertension" -> Bool(FALSE)
       [] OTHER -> Absent]

With(patient, f, v) == [patient EXCEPT ![f] = v]

Nums(S) == {Num(i) : i \in S}

\* The values a field takes besides the base record's
Variations ==
  ({"edad"} \X ({Absent, None, Str("")} \cup Nums({19, 20, 29, 30, 39, 40, 65, 66, 74, 75, 79, 80, 81})))
  \cup ({"sexo"} \X {Absent, None, Str(""), Str("mujer"), Str("Hombre"), Str("otro")})
  \cup ({"colesterol_total"} \X ({Absent, None, Str("")} \cup Nums({99, 100, 225, 226, 400, 401})))
  \cup ({"hdl"} \X ({Absent, None, Str("")} \cup Nums({0, 19, 20, 43, 44, 100, 101})))
  \cup ({"presion_sistolica"} \X ({Absent, None, Str("")} \cup Nums({89, 90, 130, 131, 140, 141, 200, 201})))
  \cup ({"ldl"} \X ({None} \cup Nums({49, 50, 120, 200, 201})))
  \cup ({"presion_diastolica"} \X Nums({59, 60, 80, 120, 121}))
  \cup ({"peso"} \X Nums({29, 30, 70, 200, 201}))
  \cup ({"altura"} \X Nums({99, 100, 170, 250, 251}))
  \cup ({"fumador", "diabetes", "tratamiento_hipertension", "estatinas"}
        \X {Absent, None, Bool(TRUE), Bool(FALSE), Num(0), Num(1), Num(2), Str(""), Str("no")})
  \cup ({"raza"} \X {None, Num(1), Str("blanco"), Str("Blanco"), Str("afroamericano"), Str("otro")})
  \cup ({"region_riesgo"} \X {Str("alto"), Str("bajo"), Str("otro")})

\* Every record that differs from the base record in at most two fields
UnitInputs == {With(With(BasePatient, a[1], a[2]), b[1], b[2]) : a, b \in Variations}

\* The request bodies of the running server
FacadeInputs ==
  {BasePatient,
   With(BasePatient, "edad", Num(25)),
   With(BasePatient, "edad", Num(70)),
   With(BasePatient, "edad", Num(81))}

(***************************************************************************)
(* The server: requests arrive one at a time, time passes                  *)
(***************************************************************************)
MaxIssued == 1
MaxNow == 61
TickSteps == {EXPIRE_MINUTES, EXPIRE_MINUTES + 1}

\* No request in progress, no evaluation made, no row in the database
Idle ==
  /\ threads = <<>>
  /\ evals = <<>>
  /\ db = <<>>

Init ==
  /\ now = 0
  /\ SESSIONS = NoSessions
  /\ issued = 0
  /\ call = NoCall
  /\ Idle

Tick ==
  /\ \E d \in TickSteps : now + d <= MaxNow /\ now' = now + d
  /\ UNCHANGED <<SESSIONS, issued, call, threads, evals, db>>

Request ==
  /\ \E m \in Methods, p \in FacadeInputs : Calculate(m, p)
  /\ issued' <= MaxIssued

\* The session ids asked for: those issued and one that never is
ReportIds == 1..(MaxIssued + 1)

Download == \E session_id \in ReportIds, built \in BOOLEAN : Report(session_id, built)

Next == Request \/ Download \/ Tick

Spec == Init /\ [][Next]_vars

(***************************************************************************)
(* The functions on their own: one call on one record                      *)
(***************************************************************************)
UnitInit ==
  /\ now = 0
  /\ SESSIONS = NoSessions
  /\ issued = 0
  /\ Idle
  /\ \E p \in UnitInputs :
       call = Call("input", "", p, p, NoValidation, <<>>, NoModelResult, NoResponse)

UnitValidate == call.op = "input" /\ CallValidate(call.patient)

UnitModel == call.op = "input" /\ \E name \in {"framingham", "score", "acc_aha"} : CallModel(name, call.patient)

UnitCalculate == call.op = "input" /\ \E m \in Methods : Calculate(m, call.patient)

UnitNext == UnitValidate \/ UnitModel \/ UnitCalculate

SpecUnit == UnitInit /\ [][UnitNext]_vars

(***************************************************************************)
(* The evaluators over a grid of valid records                             *)
(***************************************************************************)
GridAges == 30..74

\* Every record of the grid passes validation: the values lie within RANGES
GridInputs ==
  {[f \in FieldNames |->
      CASE f = "edad" -> Num(age)
        [] f = "sexo" -> Str(sexo)
        [] f = "colesterol_total" -> Num(tc)
        [] f = "hdl" -> Num(hdl)
        [] f = "presion_sistolica" -> Num(sbp)
        [] f = "fumador" -> Bool(fumador)
        [] f = "diabetes" -> Bool(diabetes)
        [] f = "tratamiento_hipertension" -> Bool(FALSE)
        [] f = "estatinas" -> Bool(FALSE)
        [] f = "region_riesgo" -> region
        [] OTHER -> Absent] :
     age \in GridAges, sexo \in {"hombre", "mujer"}, tc \in {100, 220, 400},
     hdl \in {20, 100}, sbp \in {90, 130, 145, 150, 170, 200},
     fumador \in BOOLEAN, diabetes \in BOOLEAN, region \in {Absent, Str("alto")}}

GridInit ==
  /\ now = 0
  /\ SESSIONS = NoSessions
  /\ issued = 0
  /\ Idle
  /\ \E p \in GridInputs :
       call = Call("input", "", p, p, NoValidation, <<>>, NoModelResult, NoResponse)

GridNext == UnitModel

SpecGrid == GridInit /\ [][GridNext]_vars

(***************************************************************************)
(* The evaluations of the records of two requests, in any order            *)
(***************************************************************************)
MaxRuns == 4

\* EvaluatorLeaves for evaluators that fill in the defaults they read
EvaluatorLeavesDefaults(name, patient) ==
  IF name = "score" THEN [patient EXCEPT !["region_riesgo"] = Str("bajo")]
  ELSE [patient EXCEPT !["raza"] = Str("blanco")]

\* The dict as framingham_risk, score_risk and acc_aha_risk leave it: none of
\* them, nor what they call, assigns to patient or to a module-level name
EvaluatorLeaves(name, patient) == patient

\* Records that pass validation, as validate leaves them
OrderInputs ==
  {With(With(With(BasePatient, "estatinas", Bool(FALSE)), a[1], a[2]), b[1], b[2]) :
     a \in {<<"edad", Num(55)>>, <<"edad", Num(70)>>},
     b \in {<<"sexo", Str("mujer")>>, <<"raza", Str("afroamericano")>>,
            <<"region_riesgo", Str("alto")>>}}

\* What is known of one request: its record as it arrived and as it is now,
\* the value each model handed back last, and the evaluations made so far
Evaluation(input, patient, results, runs) ==
  [input |-> input, patient |-> patient, results |-> results, runs |-> runs]

OrderInit ==
  /\ now = 0
  /\ SESSIONS = NoSessions
  /\ issued = 0
  /\ call = NoCall
  /\ threads = <<>>
  /\ db = <<>>
  /\ \E p, q \in OrderInputs :
       evals = [r \in 1..2 |->
                  Evaluation(IF r = 1 THEN p ELSE q, IF r = 1 THEN p ELSE q,
                             [name \in {"framingham", "score", "acc_aha"} |-> NoModelResult], 0)]

\* One model is evaluated on the record of request r
Evaluate(r, name) ==
  /\ evals[r].runs < MaxRuns
  /\ evals' = [evals EXCEPT ![r] =
                 Evaluation(@.input, EvaluatorLeaves(name, @.patient),
                            [@.results EXCEPT ![name] = EvalModel(name, evals[r].patient)],
                            @.runs + 1)]
  /\ UNCHANGED <<now, SESSIONS, issued, call, threads, db>>

\* Any model on the record of either request, again and again
SpecOrder ==
  OrderInit /\ [][\E r \in 1..2, name \in {"framingham", "score", "acc_aha"} : Evaluate(r, name)]_vars

(***************************************************************************)

(* Two calculate requests served by two threads on the one SESSIONS dict   *)
(***************************************************************************)
\* A request being served: pc is its position in calculate ("cleanup": about
\* to call _cleanup_expired, "scan": in the list comprehension of lines 39-42,
\* "delete": in the loop of lines 43-44, "act": at line 316, "done": answered);
\* size is the size of the dict when the iteration over SESSIONS.items()
\* began, seen the keys it has yielded, expired the list still to delete,
\* exc the exception that left the handler and status the HTTP status.
Thread(pc, size, seen, expired, exc, status) ==
  [pc |-> pc, size |-> size, seen |-> seen, expired |-> expired, exc |-> exc,
   status |-> status]

\* The store holds up to two sessions, stored at time 0 or 1, and it is now
\* EXPIRE_MINUTES + 1: a session of time 0 has expired, one of time 1 has not
ThreadInit ==
  /\ now = EXPIRE_MINUTES + 1
  /\ issued = 2
  /\ call = NoCall
  /\ evals = <<>>
  /\ db = <<>>
  /\ threads = [i \in 1..2 |-> Thread("cleanup", 0, {}, <<>>, "", 0)]
  /\ \E ids \in SUBSET (1..2) : \E stored \in [ids -> 0..1] :
       SESSIONS = [sid \in ids |->
                     calculate("score", BasePatient, NoSessions, stored[sid], sid).sessions[sid]]

\* line 39: iter(SESSIONS.items()) remembers the size of the dict
BeginScan(i) ==
  /\ threads[i].pc = "cleanup"
  /\ threads' = [threads EXCEPT ![i] =
                   Thread("scan", Cardinality(DOMAIN SESSIONS), {}, <<>>, "", 0)]
  /\ UNCHANGED <<now, SESSIONS, issued, call, evals, db>>

\* lines 39-42, one turn of the comprehension: next() raises RuntimeError
\* when the dict has changed size since the iteration began, yields the next
\* key otherwise, and ends the scan when there is none
ScanStep(i) ==
  /\ threads[i].pc = "scan"
  /\ \/ /\ Cardinality(DOMAIN SESSIONS) # threads[i].size
        /\ threads' = [threads EXCEPT ![i] =
                         Thread("done", @.size, @.seen, @.expired, "RuntimeError", 500)]
     \/ /\ Cardinality(DOMAIN SESSIONS) = threads[i].size
        /\ (DOMAIN SESSIONS) \ threads[i].seen = {}
        /\ threads' = [threads EXCEPT ![i] =
                         Thread("delete", @.size, @.seen, @.expired, "", 0)]
     \/ /\ Cardinality(DOMAIN SESSIONS) = threads[i].size
        /\ \E sid \in (DOMAIN SESSIONS) \ threads[i].seen :
             /\ \A other \in (DOMAIN SESSIONS) \ threads[i].seen : sid <= other
             /\ threads' = [threads EXCEPT ![i] =
                  Thread("scan", @.size, @.seen \cup {sid},
                         IF now - SESSIONS[sid].timestamp > EXPIRE_MINUTES
                         THEN Append(@.expired, sid) ELSE @.expired,
                         "", 0)]
  /\ UNCHANGED <<now, SESSIONS, issued, call, evals, db>>

\* lines 43-44, one turn of the loop: del SESSIONS[sid] raises KeyError when
\* sid is not in the dict
DeleteStep(i) ==
  /\ threads[i].pc = "delete"
  /\ threads' = [threads EXCEPT ![i] =
       IF @.expired = <<>> THEN Thread("act", @.size, @.seen, <<>>, "", 0)
       ELSE IF Head(@.expired) \notin DOMAIN SESSIONS
       THEN Thread("done", @.size, @.seen, @.expired, "KeyError", 500)
       ELSE Thread("delete", @.size, @.seen, Tail(@.expired), "", 0)]
  /\ SESSIONS' = IF threads[i].expired # <<>> /\ Head(threads[i].expired) \in DOMAIN SESSIONS
                 THEN [sid \in (DOMAIN SESSIONS) \ {Head(threads[i].expired)} |-> SESSIONS[sid]]
                 ELSE SESSIONS
  /\ UNCHANGED <<now, issued, call, evals, db>>

\* lines 316-353: the rest of calculate, on the store as it is by then
ActStep(i) ==
  /\ threads[i].pc = "act"
  /\ \E c \in {calculate("score", BasePatient, SESSIONS, now, issued + 1)} :
       /\ SESSIONS' = c.sessions
       /\ issued' = issued + 1
       /\ threads' = [threads EXCEPT ![i] =
                        Thread("done", @.size, @.seen, <<c.response.session_id>>, "",
                               c.response.status)]
  /\ UNCHANGED <<now, call, evals, db>>

\* The threaded server (app.run, line 382) runs either thread at any time
SpecThreads ==
  ThreadInit
  /\ [][\E i \in 1..2 : BeginScan(i) \/ ScanStep(i) \/ DeleteStep(i) \/ ActStep(i)]_vars

(***************************************************************************)

(* Profiles: create_profile, update_profile_measurements and the history   *)
(***************************************************************************)
MaxRequests == 3

\* datetime.date(): the calendar day of a time in minutes
Day(t) == t \div 1440

\* The bodies of the profile requests: the example record, the same for a
\* non-smoker, and one that does not pass validation
DbInputs ==
  {BasePatient, With(BasePatient, "fumador", Bool(FALSE)), With(BasePatient, "edad", Num(81))}

\* The tables are empty (create_tables, app.py line 33)
DbInit ==
  /\ now = 0
  /\ SESSIONS = NoSessions
  /\ issued = 0
  /\ call = NoCall
  /\ threads = <<>>
  /\ evals = <<>>
  /\ db = [profiles |-> <<>>, patients |-> <<>>, clinical |-> <<>>, risk |-> <<>>]

\* lines 101-124 and 259-280: the rows a request adds for patient_id at time
\* t, data being the dict as validate left it
WithMeasurement(d, patient_id, data, t) ==
  [d EXCEPT
     !.clinical = Append(@, [id |-> Len(@) + 1, patient_id |-> patient_id,
                             measurement_date |-> t,
                             total_cholesterol |-> data["colesterol_total"].n,
                             hdl |-> data["hdl"].n,
                             systolic_pressure |-> data["presion_sistolica"].n]),
     !.risk = Append(@, [id |-> Len(@) + 1, patient_id |-> patient_id,
                         date_recorded |-> t,
                         smoking |-> data["fumador"].n = 1,
                         diabetes |-> data["diabetes"].n = 1,
                         hypertension_treatment |-> data["tratamiento_hipertension"].n = 1,
                         statins |-> data["estatinas"].n = 1])]

\* POST /profiles with name and patient_data, at time t: the status answered
\* and the tables afterwards
create_profile(name, v, d, t) ==
  IF v.exc # "" THEN [status |-> 500, db |-> d]
  ELSE IF ~v.ok THEN [status |-> 400, db |-> d]
  ELSE IF \E i \in 1..Len(d.profiles) : d.profiles[i].name = name
  THEN [status |-> 400, db |-> d]
  ELSE [status |-> 200,
        db |-> WithMeasurement(
                 [d EXCEPT !.profiles = Append(@, [id |-> Len(@) + 1, name |-> name,
                                                  is_active |-> TRUE]),
                           !.patients = Append(@, [id |-> Len(@) + 1,
                                                  profile_id |-> Len(d.profiles) + 1,
                                                  age |-> v.data["edad"].n])],
                 Len(d.patients) + 1, v.data, t)]

\* The first patient of the profile of that name, 0 when there is none
PatientOf(name, d) ==
  IF \E i \in 1..Len(d.profiles) : d.profiles[i].name = name /\ d.profiles[i].is_active
  THEN CHOOSE p \in 1..Len(d.patients) :
         \E i \in 1..Len(d.profiles) :
           d.profiles[i].name = name /\ d.patients[p].profile_id = d.profiles[i].id
  ELSE 0

\* POST /profiles/<name>/update with body data, at time t
update_profile_measurements(name, v, d, t) ==
  IF v.exc # "" THEN [status |-> 500, db |-> d]
  ELSE IF ~v.ok THEN [status |-> 400, db |-> d]
  ELSE IF PatientOf(name, d) = 0 THEN [status |-> 404, db |-> d]
  ELSE [status |-> 200,
        db |-> WithMeasurement(
                 [d EXCEPT !.patients[PatientOf(name, d)].age = v.data["edad"].n],
                 PatientOf(name, d), v.data, t)]

\* A profile request is served: create when create is TRUE, update otherwise.
\* Time passes before it, a minute or a day (the days and minutes passed
\* count the requests served).
ProfileRequest(create, name, data) ==
  /\ Day(now) + (now % 1440) < MaxRequests
  /\ \E step \in {1, 1440} :
       /\ now' = now + step
       /\ \E v \in {validate_patient_data(data)} :
          \E r \in {IF create THEN create_profile(name, v, db, now + step)
                    ELSE update_profile_measurements(name, v, db, now + step)} :
            /\ db' = r.db
            /\ call' = Call(IF create THEN "create_profile" ELSE "update_profile", "",
                            data, v.data, v, <<>>, NoModelResult,
                            Response(r.status, IF r.status = 200 THEN "ok" ELSE "error",
                                     <<>>, 0, <<>>, <<>>))
  /\ UNCHANGED <<SESSIONS, issued, threads, evals>>

CreateProfile == \E name \in {"ana", "luis"}, data \in DbInputs : ProfileRequest(TRUE, name, data)

UpdateMeasurements == \E name \in {"ana", "luis"}, data \in DbInputs : ProfileRequest(FALSE, name, data)

SpecDb == DbInit /\ [][CreateProfile \/ UpdateMeasurements]_vars

\* GET /profiles/<name>/history (lines 163-229): the status and the history
\* list. Descending is order_by(column.desc()) on rows of distinct times (the
\* row at position k has k - 1 rows after it in time); FirstNotAfter is the
\* next(...) of lines 191-195, 0 for None; risk_factors is <<>> for None.
get_profile_history(name, d) ==
  LET Descending(rows, time(_)) ==
        [k \in 1..Len(rows) |->
           rows[CHOOSE i \in 1..Len(rows) :
                  Cardinality({j \in 1..Len(rows) : time(rows[j]) > time(rows[i])}) = k - 1]]
      clinical_history ==
        Descending(SelectSeq(d.clinical,
                             LAMBDA c : c.patient_id = d.patients[PatientOf(name, d)].id),
                   LAMBDA c : c.measurement_date)
      risk_factors_history ==
        Descending(SelectSeq(d.risk,
                             LAMBDA rf : rf.patient_id = d.patients[PatientOf(name, d)].id),
                   LAMBDA rf : rf.date_recorded)
      FirstNotAfter(clinical) ==
        IF \E i \in 1..Len(risk_factors_history) :
             Day(risk_factors_history[i].date_recorded) <= Day(clinical.measurement_date)
        THEN CHOOSE i \in 1..Len(risk_factors_history) :
               /\ Day(risk_factors_history[i].date_recorded) <= Day(clinical.measurement_date)
               /\ \A j \in 1..(i - 1) :
                    Day(risk_factors_history[j].date_recorded) > Day(clinical.measurement_date)
        ELSE 0
  IN IF PatientOf(name, d) = 0 THEN [status |-> 404, history |-> <<>>]
     ELSE [status |-> 200,
           history |->
             [k \in 1..Len(clinical_history) |->
                [date |-> clinical_history[k].measurement_date,
                 clinical |-> [total_cholesterol |-> clinical_history[k].total_cholesterol,
                               hdl |-> clinical_history[k].hdl,
                               systolic_pressure |-> clinical_history[k].systolic_pressure],
                 risk_factors |->
                   IF FirstNotAfter(clinical_history[k]) = 0 THEN <<>>
                   ELSE <<[f \in {"smoking", "diabetes", "hypertension_treatment", "statins"} |->
                             risk_factors_history[FirstNotAfter(clinical_history[k])][f]]>>]]]

(***************************************************************************)

(* Properties                                                              *)
(***************************************************************************)
AllModels == <<"framingham", "score", "acc_aha">>

\* The last request was /calculate/all on a record that passed validation
AllModeCall ==
  /\ call.op = "calculate"
  /\ call.method = "all"
  /\ call.validation.exc = ""
  /\ call.validation.ok

\* What model i hands back when run alone on the record of the last request
Alone(i) == EvalModel(AllModels[i], call.data)

\* The models that do not produce a percent on that record
Failing == {i \in 1..Len(AllModels) : Alone(i).kind # "ok"}

FirstFailing == CHOOSE i \in Failing : \A j \in Failing : i <= j

NothingStored ==
  /\ DOMAIN SESSIONS' \subseteq DOMAIN SESSIONS
  /\ \A sid \in DOMAIN SESSIONS' : SESSIONS'[sid] = SESSIONS[sid]

\* C2: whenever validate returns Invalid for the record of a request, the
\* request is answered 400 with the validation errors, no model is invoked, no
\* result is returned, no session id is issued and nothing is stored.
C2_InvalidStopsBeforeModels ==
  [][(/\ call'.op = "calculate"
      /\ call'.validation.exc = ""
      /\ ~call'.validation.ok)
     => /\ call'.response.status = 400
        /\ call'.response.body = "error"
        /\ call'.response.errors = call'.validation.errors
        /\ call'.response.errors # <<>>
        /\ call'.invoked = <<>>
        /\ call'.response.result = <<>>
        /\ call'.response.session_id = 0
        /\ NothingStored]_vars

\* C2 witness: an Invalid request answered while a session is in the store
C2_Witness_InvalidWithStore ==
  /\ call.op = "calculate"
  /\ ~call.validation.ok
  /\ call.response.status = 400
  /\ call.invoked = <<>>
  /\ SESSIONS # NoSessions

\* C3, as stated: each of the three evaluators hands back a result for every
\* record, a (percent, category) pair or a failure with a reason, and never
\* raises.
C3_EvaluatorsNeverRaise ==
  call.op \in {"framingham", "score", "acc_aha"} => call.model.kind \in {"ok", "error"}

\* The window of each model
Window(name) ==
  CASE name = "framingham" -> <<30, 74>>
    [] name = "score" -> <<40, 65>>
    [] name = "acc_aha" -> <<40, 79>>

WindowReason(name) ==
  CASE name = "framingham" -> FraminghamWindowMsg
    [] name = "score" -> ScoreWindowMsg
    [] name = "acc_aha" -> AccAhaWindowMsg

AgeIs(patient, S) == patient["edad"].k = "num" /\ patient["edad"].n \in S

\* The base record at another age
AtAge(patient) == patient = With(BasePatient, "edad", patient["edad"])

\* C4: a model produces a percent only for an age inside its closed window
\* (Framingham 30-74, SCORE 40-65, ACC/AHA 40-79); for a numeric age outside
\* it the model produces none, and on an otherwise sound record the failure
\* is the model's applicability reason; both end points of each window are
\* accepted.
C4_ClosedAgeWindows ==
  \A name \in {"framingham", "score", "acc_aha"} :
    call.op = name =>
      /\ call.model.kind = "ok" => AgeIs(call.patient, Window(name)[1]..Window(name)[2])
      /\ (IsNumber(call.patient["edad"]) /\ ~AgeIs(call.patient, Window(name)[1]..Window(name)[2]))
           => call.model.kind # "ok"
      /\ (AtAge(call.patient) /\ IsNumber(call.patient["edad"])
            /\ ~AgeIs(call.patient, Window(name)[1]..Window(name)[2]))
           => call.model.exc = "ValueError" /\ call.model.error = WindowReason(name)
      /\ (AtAge(call.patient) /\ AgeIs(call.patient, {Window(name)[1], Window(name)[2]}))
           => call.model.kind = "ok"

\* C4 witness: Framingham at age 74, the upper end of its window, gives a percent
C4_Witness_FraminghamAt74 ==
  /\ call.op = "framingham"
  /\ AgeIs(call.patient, {74})
  /\ AtAge(call.patient)
  /\ call.model.kind = "ok"

OutOfRange(v, f) == IsNumber(v) /\ (v.n < RANGES[f][1] \/ v.n > RANGES[f][2])

NamesField(list, what, f) ==
  \E i \in 1..Len(list) : list[i].what = what /\ list[i].field = f

\* C5, as stated: for each of the eight fields of the range table, a record
\* in which the field is present with a value strictly outside its bounds is
\* returned by validate as Invalid with a range error for that field.
C5_OutOfRangeIsInvalid ==
  call.op = "validate" =>
    \A f \in DOMAIN RANGES :
      OutOfRange(call.patient[f], f) =>
        /\ call.validation.exc = ""
        /\ ~call.validation.ok
        /\ NamesField(call.validation.list, "fuera de rango", f)

\* absent, null or the empty string
Blank(v) == v.k \in {"absent", "none"} \/ (v.k = "str" /\ v.s = "")

Count(list, m) == Cardinality({i \in 1..Len(list) : list[i] = m})

\* C6, as stated: when any of the five required fields is absent, null or the
\* empty string, validate returns Invalid and does not raise; its errors hold
\* one missing-parameter error per such field and no range error for it, and
\* the required fields that are present are still range-checked.
C6_MissingRequiredIsInvalid ==
  (/\ call.op = "validate"
   /\ \E i \in 1..Len(required_fields) : Blank(call.patient[required_fields[i]]))
  => /\ call.validation.exc = ""
     /\ ~call.validation.ok
     /\ \A i \in 1..Len(required_fields) :
          LET f == required_fields[i] IN
          /\ Blank(call.patient[f]) =>
               /\ Count(call.validation.list, MissingError(f)) = 1
               /\ ~NamesField(call.validation.list, "fuera de rango", f)
          /\ (~Blank(call.patient[f]) /\ f \in DOMAIN RANGES /\ OutOfRange(call.patient[f], f))
               => NamesField(call.validation.list, "fuera de rango", f)

RequiredNumeric == {"edad", "colesterol_total", "hdl", "presion_sistolica"}

\* C7: for each required numeric field, a value equal to its lower or upper
\* bound gives, when validate returns, a boundary warning naming the field
\* and no error for it; the base record at age 79 is Valid with a warning
\* naming edad, and at age 81 it is Invalid with an error citing 20-79.
C7_BoundaryIsWarning ==
  call.op = "validate" =>
    /\ \A f \in RequiredNumeric :
         (/\ call.validation.exc = ""
          /\ call.patient[f].k = "num"
          /\ call.patient[f].n \in {RANGES[f][1], RANGES[f][2]})
         => /\ Count(call.validation.warnings, LimitWarning(f, call.patient[f].n)) = 1
            /\ \A i \in 1..Len(call.validation.errors) : call.validation.errors[i].field # f
    /\ call.patient = With(BasePatient, "edad", Num(79))
         => /\ call.validation.exc = ""
            /\ call.validation.ok
            /\ NamesField(call.validation.list, "en el limite permitido", "edad")
    /\ call.patient = With(BasePatient, "edad", Num(81))
         => /\ call.validation.exc = ""
            /\ ~call.validation.ok
            /\ \E i \in 1..Len(call.validation.list) :
                 /\ call.validation.list[i].what = "fuera de rango"
                 /\ call.validation.list[i].field = "edad"
                 /\ call.validation.list[i].low = 20
                 /\ call.validation.list[i].high = 79
                 /\ call.validation.list[i].value = 81

\* C7 witness: validate on the base record at age 79 returned Valid with its
\* boundary warning
C7_Witness_Age79 ==
  /\ call.op = "validate"
  /\ call.patient = With(BasePatient, "edad", Num(79))
  /\ call.validation.ok
  /\ LimitWarning("edad", 79) = call.validation.list[1]

ErrorWordings == {"Falta el parametro obligatorio", "fuera de rango", SexoError.what}

WarningWordings == {"en el limite permitido", PresionWarning.what, RatioWarning.what}

\* Where an error is found: the position of its field among the required
\* fields, the sex check coming after all of them
FoundAt(m) ==
  IF m.what = SexoError.what THEN Len(required_fields) + 1
  ELSE CHOOSE i \in 1..Len(required_fields) : required_fields[i] = m.field

\* C8: when validate returns, it returns Valid exactly when no error was
\* recorded; when Invalid its list is the errors alone, in the order they
\* were found; when Valid its list is the warnings accumulated, in order.
C8_ReturnPolicy ==
  (call.op = "validate" /\ call.validation.exc = "") =>
    /\ call.validation.ok <=> call.validation.errors = <<>>
    /\ \A i \in 1..Len(call.validation.errors) : call.validation.errors[i].what \in ErrorWordings
    /\ \A i \in 1..Len(call.validation.warnings) : call.validation.warnings[i].what \in WarningWordings
    /\ ~call.validation.ok =>
         /\ call.validation.list = call.validation.errors
         /\ \A i, j \in 1..Len(call.validation.list) :
              i < j => FoundAt(call.validation.list[i]) < FoundAt(call.validation.list[j])
    /\ call.validation.ok => call.validation.list = call.validation.warnings

\* C8 witness: validate returned Invalid on a record that also raised a warning
C8_Witness_ErrorsAndWarnings ==
  /\ call.op = "validate"
  /\ call.validation.exc = ""
  /\ call.validation.errors # <<>>
  /\ call.validation.warnings # <<>>
  /\ call.validation.list = call.validation.errors

\* absent, or a number
AbsentOrNumber(v) == v.k \in {"absent", "num"}

BothNumbers(patient, f, g) == patient[f].k = "num" /\ patient[g].k = "num"

\* C9: on a record whose age, systolic pressure, total cholesterol and HDL
\* are numbers or absent (HDL not 0), validate returns, with the pressure
\* warning exactly when both age and pressure are there and (age < 40 and
\* systolic > 140) or (age > 65 and systolic > 130), and the ratio warning
\* exactly when both are there and total cholesterol / HDL > 5; neither is
\* ever an error, and a record with no error is Valid with them.
C9_CrossFieldWarningsOnly ==
  (/\ call.op = "validate"
   /\ \A f \in RequiredNumeric : AbsentOrNumber(call.patient[f])
   /\ call.patient["hdl"].n # 0 \/ call.patient["hdl"].k = "absent")
  => /\ call.validation.exc = ""
     /\ Count(call.validation.warnings, PresionWarning) > 0
          <=> /\ BothNumbers(call.patient, "edad", "presion_sistolica")
              /\ \/ call.patient["edad"].n < 40 /\ call.patient["presion_sistolica"].n > 140
                 \/ call.patient["edad"].n > 65 /\ call.patient["presion_sistolica"].n > 130
     /\ Count(call.validation.warnings, RatioWarning) > 0
          <=> /\ BothNumbers(call.patient, "colesterol_total", "hdl")
              /\ call.patient["colesterol_total"].n > 5 * call.patient["hdl"].n
     /\ Count(call.validation.errors, PresionWarning) = 0
     /\ Count(call.validation.errors, RatioWarning) = 0
     /\ call.validation.errors = <<>> =>
          call.validation.ok /\ call.validation.list = call.validation.warnings

\* C9 witness: a Valid record with both cross-field warnings
C9_Witness_BothWarnings ==
  /\ call.op = "validate"
  /\ call.validation.ok
  /\ Count(call.validation.list, PresionWarning) = 1
  /\ Count(call.validation.list, RatioWarning) = 1

\* The truth value Python gives a flag
FlagValue(v) ==
  CASE v.k \in {"absent", "none"} -> Bool(FALSE)
    [] v.k = "str" -> Bool(v.s # "")
    [] OTHER -> Bool(v.n # 0)

Flags == {"fumador", "diabetes", "tratamiento_hipertension", "estatinas"}

\* C10: the four flags never cause a validation error: after validate each
\* flag of the record is a boolean, false when it was absent and the truth
\* value of what was there otherwise, no error names a flag, and every model
\* a request invokes is given the record with the four flags as booleans.
C10_FlagsCoerced ==
  call.op \in {"validate", "calculate"} =>
    /\ \A f \in Flags :
         /\ call.data[f] = FlagValue(call.patient[f])
         /\ call.data[f].k = "bool"
         /\ \A i \in 1..Len(call.validation.errors) : call.validation.errors[i].field # f
    /\ \A f \in FieldNames \ Flags : call.data[f] = call.patient[f]
    /\ \A i \in 1..Len(call.response.result) :
         call.response.result[i].res = EvalModel(call.response.result[i].model, call.data)

\* C10 witness: a request whose smoker flag was the string "no" was answered
\* with results computed for a smoker
C10_Witness_StringFlag ==
  /\ call.op = "calculate"
  /\ call.patient["fumador"] = Str("no")
  /\ call.data["fumador"] = Bool(TRUE)
  /\ call.response.status = 200
  /\ call.response.result # <<>>

\* The four numeric fields are numbers or absent, and HDL is not 0
NumericFieldsSound(patient) ==
  /\ \A f \in RequiredNumeric : AbsentOrNumber(patient[f])
  /\ patient["hdl"].n # 0 \/ patient["hdl"].k = "absent"

\* C11: on a record whose numeric fields are sound, validate returns; it
\* returns Invalid with the sex error whenever sexo is present and is not
\* exactly "hombre" or "mujer" ("Hombre" is rejected), and records no sex
\* error when sexo is one of those two strings.
C11_SexIsExact ==
  (call.op = "validate" /\ NumericFieldsSound(call.patient)) =>
    /\ call.validation.exc = ""
    /\ (/\ call.patient["sexo"].k # "absent"
        /\ call.patient["sexo"] \notin {Str("hombre"), Str("mujer")})
        => /\ ~call.validation.ok
           /\ Count(call.validation.list, SexoError) = 1
    /\ call.patient["sexo"] \in {Str("hombre"), Str("mujer")}
        => Count(call.validation.errors, SexoError) = 0

\* C11 witness: validate rejected a record whose only defect is sexo "Hombre"
C11_Witness_Capitalised ==
  /\ call.op = "validate"
  /\ call.patient = With(BasePatient, "sexo", Str("Hombre"))
  /\ ~call.validation.ok
  /\ call.validation.list = <<SexoError>>

\* C12: whenever a request returns model results, the warnings returned with
\* them and the warnings kept in the stored session are the list validate
\* gives for that record, in the same order; and a record with warnings and
\* no error has every requested model invoked.
C12_WarningsForwarded ==
  /\ (call.op = "calculate" /\ call.response.status = 200) =>
       /\ call.response.warnings = validate_patient_data(call.patient).list
       /\ call.response.warnings = call.validation.warnings
       /\ call.response.session_id \in DOMAIN SESSIONS
       /\ SESSIONS[call.response.session_id].warnings = call.response.warnings
       /\ SESSIONS[call.response.session_id].result = call.response.result
  /\ (/\ call.op = "calculate"
      /\ call.validation.exc = ""
      /\ call.validation.errors = <<>>
      /\ call.validation.warnings # <<>>)
     => /\ call.response.status # 400
        /\ call.invoked # <<>> \/ call.method \notin {"framingham", "score", "acc-aha", "all"}

\* C12 witness: a request answered with results and two warnings
C12_Witness_TwoWarnings ==
  /\ call.op = "calculate"
  /\ call.response.status = 200
  /\ call.response.result # <<>>
  /\ Len(call.response.warnings) = 2

\* The last call was score_risk on a record of age 40..65 and gave a percent
ScoreAnswered ==
  /\ call.op = "score"
  /\ AgeIs(call.patient, 40..65)
  /\ call.model.kind = "ok"

\* The table value filed under the given keys
TableValue(tbl, age, chol, press, smoker) ==
  tbl[CHOOSE i \in 1..Len(tbl) : tbl[i].age = age].cells[chol - 3][(press - 100) \div 10 - 1 + smoker]

\* The percent SCORE reports is ten times (tenths) the value filed under the
\* keys of the cell selected, at most 25
ReportsSelectedCell ==
  call.model.percent =
    10 * Min(TableValue(ScoreTable(call.patient), ScoreCell(call.patient).age,
                        ScoreCell(call.patient).chol, ScoreCell(call.patient).press,
                        ScoreCell(call.patient).smoker), 25)

\* The keys of K at the least distance from x, both multiplied by scale
Nearest(K, x, scale, unit) ==
  {k \in K : \A j \in K : Abs(scale * k - unit * x) <= Abs(scale * j - unit * x)}

Smallest(K) == CHOOSE k \in K : \A j \in K : k <= j

AgeKeys == {40, 50, 55, 60, 65}

\* C13, as stated: for every age in 40..65, either sex and either region,
\* the SCORE lookup uses the row of the discretized age in
\* {40, 45, 50, 55, 60, 65} nearest to the patient's age.
C13_NearestOfSixAges ==
  ScoreAnswered =>
    /\ ReportsSelectedCell
    /\ ScoreCell(call.patient).age \in Nearest({40, 45, 50, 55, 60, 65}, call.patient["edad"].n, 1, 1)

\* C13, as the code has it: the tables have the five age rows 40, 50, 55, 60
\* and 65 (none for 45), and for every age in 40..65, either sex and either
\* region, the lookup reports from a row whose age is at the least absolute
\* difference from the patient's age among those five.
C13_NearestOfFiveAges ==
  ScoreAnswered =>
    /\ ReportsSelectedCell
    /\ {ScoreTable(call.patient)[i].age : i \in 1..Len(ScoreTable(call.patient))} = AgeKeys
    /\ ScoreCell(call.patient).age \in Nearest(AgeKeys, call.patient["edad"].n, 1, 1)

\* C13 witness: at age 47 in the high region the row of age 50 is used
C13_Witness_Age47 ==
  /\ ScoreAnswered
  /\ AgeIs(call.patient, {47})
  /\ call.patient["region_riesgo"] = Str("alto")
  /\ ScoreCell(call.patient).age = 50

\* C14, as stated: whenever the age, the cholesterol in mmol/L or the
\* systolic pressure is at the same distance from two keys of the selected
\* table, the smaller key is chosen, in both region tables and for both sexes.
C14_TiesTowardSmaller ==
  ScoreAnswered =>
    /\ ReportsSelectedCell
    /\ ScoreCell(call.patient).age = Smallest(Nearest(AgeKeys, call.patient["edad"].n, 1, 1))
    /\ ScoreCell(call.patient).chol =
         Smallest(Nearest({4, 5, 6, 7, 8}, call.patient["colesterol_total"].n, 3867, 100))
    /\ ScoreCell(call.patient).press =
         Smallest(Nearest({120, 140, 160, 180}, call.patient["presion_sistolica"].n, 1, 1))

\* C15: for every valid record of age 40..65, either sex, either region and
\* either smoker flag, the SCORE percent is the lesser of the selected cell's
\* value and 25: never above 25.0, and the cell's value when that is at most 25.
C15_ScoreCeiling ==
  ScoreAnswered =>
    /\ ReportsSelectedCell
    /\ call.model.percent <= 250
    /\ call.model.percent >= 0
    /\ ScoreCell(call.patient).risk <= 25 => call.model.percent = 10 * ScoreCell(call.patient).risk
    /\ ScoreCell(call.patient).risk > 25 => call.model.percent = 250

\* C15 witness: a cell above 25 (low region, man of 65, smoker) reported as 25.0
C15_Witness_Clamped ==
  /\ ScoreAnswered
  /\ ScoreCell(call.patient).risk > 25
  /\ call.model.percent = 250

\* The record of the end-to-end example, with the low region named or left out
IsExample(patient) ==
  \/ patient = BasePatient
  \/ patient = With(BasePatient, "region_riesgo", Str("bajo"))
  \/ patient = With(BasePatient, "estatinas", Bool(FALSE))

\* C16: for the record {age 55, man, total cholesterol 220, HDL 45, systolic
\* 145, smoker, no diabetes, no treatment} in the low region, SCORE selects
\* the age row 55, the cholesterol key 6, the pressure key 140 and smoker, and
\* reports the value the low-region table of men holds there (8) as the
\* percent, with the category of the shared thresholds (moderado).
C16_EndToEndExample ==
  (call.op = "score" /\ IsExample(call.patient)) =>
    /\ ScoreCell(call.patient) =
         [age |-> 55, chol |-> 6, press |-> 140, smoker |-> 1,
          risk |-> TableValue(SCORE_TABLE_LOW.H, 55, 6, 140, 1)]
    /\ TableValue(SCORE_TABLE_LOW.H, 55, 6, 140, 1) = 8
    /\ call.model.kind = "ok"
    /\ call.model.percent = 80
    /\ call.model.category = "moderado"

\* C16 witness: score_risk was called on the example record
C16_Witness_Example ==
  /\ call.op = "score"
  /\ call.patient = BasePatient
  /\ call.model.percent = 80

\* The sex and the race ACC/AHA works with: lower-cased, white when absent
SexWord(patient) == IF patient["sexo"].k = "str" THEN Lower(patient["sexo"].s) ELSE ""

RaceWord(patient) ==
  IF patient["raza"].k = "absent" THEN "blanco"
  ELSE IF patient["raza"].k = "str" THEN Lower(patient["raza"].s)
  ELSE ""

Supported(patient) ==
  SexWord(patient) \in {"hombre", "mujer"} /\ RaceWord(patient) \in {"blanco", "afroamericano"}

\* The base record with another sex and another race
SexAndRace(sexo, raza) == With(With(BasePatient, "sexo", sexo), "raza", raza)

\* C17: acc_aha_risk never raises; it gives a percent only when the sex is
\* hombre or mujer and the race blanco or afroamericano (compared in lower
\* case); an absent race gives what race blanco gives; for any other sex or
\* race it returns a failure with a reason, which on an otherwise sound
\* record is the unsupported-pair reason, and the four pairs give four
\* different percents on the base record.
C17_FourVariants ==
  call.op = "acc_aha" =>
    /\ call.model.kind \in {"ok", "error"}
    /\ call.model.kind = "ok" => Supported(call.patient)
    /\ ~Supported(call.patient) =>
         /\ call.model.kind = "error"
         /\ call.model.error # ""
         /\ call.model.category = "error"
    /\ call.patient["raza"].k = "absent" =>
         call.model = acc_aha_risk(With(call.patient, "raza", Str("blanco")))
    /\ (/\ call.patient = SexAndRace(call.patient["sexo"], call.patient["raza"])
        /\ call.patient["sexo"].k = "str" /\ call.patient["sexo"].s # ""
        /\ call.patient["raza"].k \in {"absent", "str"}
        /\ ~Supported(call.patient))
       => call.model.error = AccAhaVariantMsg
    /\ call.patient = BasePatient =>
         Cardinality({acc_aha_risk(SexAndRace(Str(sx), Str(rz))).percent :
                        sx \in {"hombre", "mujer"}, rz \in {"blanco", "afroamericano"}}) = 4

\* C17 witness: race "otro" on the base record gave the unsupported-pair failure
C17_Witness_OtherRace ==
  /\ call.op = "acc_aha"
  /\ call.patient = With(BasePatient, "raza", Str("otro"))
  /\ call.model.kind = "error"
  /\ call.model.error = AccAhaVariantMsg

\* C18: for every valid record of age 30..74 and either sex, Framingham gives
\* a percent, never below 0 and never above 100.
C18_FraminghamWithin0And100 ==
  (call.op = "framingham" /\ AgeIs(call.patient, 30..74)) =>
    /\ call.model.kind = "ok"
    /\ call.model.percent >= 0
    /\ call.model.percent <= 1000

\* C18 witness: the record of greatest risk in the grid is reported as 100.0
C18_Witness_Hundred ==
  /\ call.op = "framingham"
  /\ AgeIs(call.patient, {74})
  /\ call.model.kind = "ok"
  /\ call.model.percent = 1000

\* The band of a percent given in tenths
Band(tenths) ==
  CASE tenths < 50 -> "bajo"
    [] tenths >= 50 /\ tenths < 100 -> "moderado"
    [] tenths >= 100 /\ tenths < 200 -> "alto"
    [] tenths >= 200 -> "muy alto"

EntryNames(result) == [i \in 1..Len(result) |-> result[i].model]

\* C20: a request answered with results has exactly one entry per requested
\* model: framingham, score and acc_aha for All, and the one model named
\* otherwise, each with the percent and category of that model; the base
\* record, to which every model applies, is answered so for each method.
C20_OneEntryPerModel ==
  call.op = "calculate" =>
    /\ call.response.status = 200 =>
         /\ call.method = "all" => EntryNames(call.response.result) = <<"framingham", "score", "acc_aha">>
         /\ call.method = "framingham" => EntryNames(call.response.result) = <<"framingham">>
         /\ call.method = "score" => EntryNames(call.response.result) = <<"score">>
         /\ call.method = "acc-aha" => EntryNames(call.response.result) = <<"acc_aha">>
         /\ \A i \in 1..Len(call.response.result) :
              /\ call.response.result[i].res.kind = "ok"
              /\ call.response.result[i].res = EvalModel(call.response.result[i].model, call.data)
              /\ call.response.result[i].res.category = Band(call.response.result[i].res.percent)
    /\ (call.patient = BasePatient /\ call.method \in {"all", "framingham", "score", "acc-aha"})
         => call.response.status = 200

\* C20 witness: All on the base record answered with three entries
C20_Witness_ThreeEntries ==
  /\ call.op = "calculate"
  /\ call.method = "all"
  /\ call.response.status = 200
  /\ Len(call.response.result) = 3

\* The fields of the last call's record that the call left with another value
Rewritten == {f \in FieldNames : call.data[f] # call.patient[f]}

Races == {Absent, None, Str("blanco"), Str("Blanco"), Str("afroamericano"), Str("otro")}
Regions == {Absent, Str("bajo"), Str("alto"), Str("otro")}

\* C23: race is read by ACC/AHA alone and the region tier by SCORE alone:
\* Framingham and SCORE hand back the same whatever the race of the record,
\* Framingham and ACC/AHA the same whatever its region tier; ACC/AHA on a
\* record without race hands back what it does for "blanco", and SCORE on a
\* record without region tier what it does for "bajo".
C23_RaceAndRegionConsumers ==
  /\ call.op \in {"framingham", "score"} =>
       \A r \in Races : EvalModel(call.op, With(call.patient, "raza", r)) = call.model
  /\ call.op \in {"framingham", "acc_aha"} =>
       \A g \in Regions : EvalModel(call.op, With(call.patient, "region_riesgo", g)) = call.model
  /\ (call.op = "acc_aha" /\ call.patient["raza"].k = "absent") =>
       call.model = acc_aha_risk(With(call.patient, "raza", Str("blanco")))
  /\ (call.op = "score" /\ call.patient["region_riesgo"].k = "absent") =>
       call.model = score_risk(With(call.patient, "region_riesgo", Str("bajo")))

\* C23 witness: ACC/AHA on the base record, which has no race, produced the
\* percent of a white man, which is not the percent of the same record with
\* race "afroamericano"
C23_Witness_AbsentRaceIsWhite ==
  /\ call.op = "acc_aha"
  /\ call.patient = BasePatient
  /\ call.model.kind = "ok"
  /\ call.model = acc_aha_risk(With(BasePatient, "raza", Str("blanco")))
  /\ call.model # acc_aha_risk(With(BasePatient, "raza", Str("afroamericano")))

\* The table of the sex of the record in the low region
LowTable(patient) == ScoreTable(With(patient, "region_riesgo", Str("bajo")))

\* C28: for every sex, age row, cholesterol key, pressure key and smoker
\* flag, the value the high-region table files under the keys is greater than
\* or equal to the value the low-region table files under the same keys: when
\* SCORE answers for region "alto", the cell it selected is not below the cell
\* of the low-region table with the same keys.
C28_HighRegionNotLower ==
  (ScoreAnswered /\ call.patient["region_riesgo"] = Str("alto")) =>
    /\ ReportsSelectedCell
    /\ ScoreCell(call.patient).risk >=
         TableValue(LowTable(call.patient), ScoreCell(call.patient).age,
                    ScoreCell(call.patient).chol, ScoreCell(call.patient).press,
                    ScoreCell(call.patient).smoker)

\* The age at time t of the session stored under sid
Age(sid, t) == t - SESSIONS[sid].timestamp

\* The session stored under sid is kept as it is by the step
Kept(sid) == sid \in DOMAIN SESSIONS' /\ SESSIONS'[sid] = SESSIONS[sid]

\* What a step that is generate_report(s) answers
ReportAnswers(s, built) ==
  IF s \in DOMAIN SESSIONS /\ Age(s, now) <= EXPIRE_MINUTES
  THEN /\ call'.response.status # 404
       /\ built => /\ call'.response.status = 200
                   /\ call'.response.session_id = s
                   /\ call'.response.result = SESSIONS[s].result
                   /\ call'.response.warnings = SESSIONS[s].warnings
  ELSE /\ call'.response.status = 404
       /\ call'.response.errors = <<SessionNotFound>>

\* C24: a stored result is retrievable for exactly its lifetime. A session id
\* is issued together with a session stored under it at the current time; a
\* session of age up to EXPIRE_MINUTES stays in the store whatever request is
\* served, and generate_report finds it; for an id that was never issued, or
\* whose session is older than EXPIRE_MINUTES, generate_report answers 404
\* "session not found"; and an id that was issued and is no longer in the
\* store never comes back.
C24_RetrievableForLifetime ==
  [][/\ \A s \in ReportIds, built \in BOOLEAN : Report(s, built) => ReportAnswers(s, built)
     /\ issued' # issued =>
          /\ issued' = issued + 1
          /\ call'.response.session_id = issued'
          /\ issued' \in DOMAIN SESSIONS'
          /\ SESSIONS'[issued'].timestamp = now'
     /\ \A s \in DOMAIN SESSIONS : Age(s, now') <= EXPIRE_MINUTES => Kept(s)
     /\ \A s \in (1..issued) \ DOMAIN SESSIONS : s \notin DOMAIN SESSIONS'
     /\ DOMAIN SESSIONS' \subseteq 1..issued']_vars

\* C24 witness: generate_report found a session exactly EXPIRE_MINUTES old
C24_Witness_FoundAtTheLimit ==
  /\ call.op = "report"
  /\ call.response.status = 200
  /\ call.response.session_id \in DOMAIN SESSIONS
  /\ Age(call.response.session_id, now) = EXPIRE_MINUTES

C26_StoreHoldsSuccessesOnly ==
  [][/\ \A s \in DOMAIN SESSIONS' :
          /\ validate_patient_data(SESSIONS'[s].patient).ok
          /\ \A i \in 1..Len(SESSIONS'[s].result) :
               /\ SESSIONS'[s].result[i].res.kind = "ok"
               /\ SESSIONS'[s].result[i].res =
                    EvalModel(SESSIONS'[s].result[i].model, SESSIONS'[s].patient)
     /\ (call'.op = "calculate" /\ call'.response.status # 200) => NothingStored
     /\ \A s \in (DOMAIN SESSIONS') \ DOMAIN SESSIONS :
          /\ call'.op = "calculate"
          /\ call'.response.status = 200
          /\ call'.response.session_id = s
          /\ call'.validation.ok
          /\ SESSIONS'[s].patient = call'.data
          /\ SESSIONS'[s].result = call'.response.result]_vars

\* C26 witness: a request that failed in a model (422) was answered while the
\* store held a session, which it left there
C26_Witness_FailureLeavesStore ==
  /\ call.op = "calculate"
  /\ call.response.status = 422
  /\ SESSIONS # NoSessions

C27_ConcurrentRequestsDoNotFail ==
  /\ \A i \in DOMAIN threads : threads[i].exc = ""
  /\ (\A i \in DOMAIN threads : threads[i].pc = "done") =>
       /\ \A i \in DOMAIN threads : threads[i].expired[1] \in DOMAIN SESSIONS
       /\ \A s \in DOMAIN SESSIONS : Age(s, now) <= EXPIRE_MINUTES

\* The risk factors stored by the request that stored the measurement of
\* that time: each request adds one row to either table, so the two rows of
\* a request have the same id
StoredWith(date) ==
  <<[f \in {"smoking", "diabetes", "hypertension_treatment", "statins"} |->
       db.risk[CHOOSE n \in 1..Len(db.clinical) : db.clinical[n].measurement_date = date][f]]>>

\* C29: every entry of a profile's history reports a clinical measurement
\* together with the risk factors stored by the same create or update
\* request, also when several requests of one calendar day stored different
\* risk factors.
C29_HistoryPairsSameRequest ==
  db # <<>> =>
    \A name \in {"ana", "luis"} :
      \A k \in 1..Len(get_profile_history(name, db).history) :
        get_profile_history(name, db).history[k].risk_factors =
          StoredWith(get_profile_history(name, db).history[k].date)

====
